---------------------------- MODULE Spec2Model ----------------------------
(***************************************************************************)
(* Model of the mimicus request-matching, response-generation, rate-limit  *)
(* and proxy-dispatch engine.                                              *)
(*                                                                         *)
(* Texts (paths, mock ids, client addresses, rate-limit keys) are sequences*)
(* of one-character strings, so that formatting, prefix tests and pattern  *)
(* matching are computed character by character as the code computes them.*)
(* Request paths are drawn from the characters "/", "a", "b"; path patterns*)
(* additionally hold the braces of {name} placeholders.                    *)
(***************************************************************************)
EXTENDS Integers, Sequences, FiniteSets, TLC

(***************************************************************************)
(* Bounds of the model.                                                    *)
(***************************************************************************)
MaxPathLen == 4

(***************************************************************************)
(* Python values.                                                          *)
(***************************************************************************)
\* None for an Optional[str]: a one-element text no real text equals
\* (real texts hold one-character strings only).
NoneStr == <<"None">>

\* an empty dict
EmptyDict == [k \in {} |-> <<>>]

\* Python truthiness of an Optional[str]
TruthyStr(s) == s # NoneStr /\ s # <<>>

(***************************************************************************)
(* Path matching: MatchingService._extract_path_params / _matches_path.    *)
(***************************************************************************)
\* the characters the regular expression class \w accepts, within the
\* model's alphabet
WordChars == {"a", "b", "i", "j"}

RequestPathChars == {"/", "a", "b"}

\* re.sub(r"\{(\w+)\}", ...) looks at position k for "{", a maximal run of
\* word characters and "}"; the result is the position of that "}", or 0.
PlaceholderEnd(p, k) ==
    IF p[k] # "{" THEN 0
    ELSE LET run == CHOOSE n \in 0..(Len(p) - k) :
                        /\ \A q \in 1..n : p[k + q] \in WordChars
                        /\ (k + n + 1 > Len(p) \/ p[k + n + 1] \notin WordChars)
         IN IF run >= 1 /\ k + run + 1 <= Len(p) /\ p[k + run + 1] = "}"
            THEN k + run + 1
            ELSE 0

\* The pattern after re.sub, as a sequence of nodes: a literal character, or
\* a named group (?P<name>[^/]+).  Substitution is leftmost, non-overlapping.
RECURSIVE PatternNodes(_, _)
PatternNodes(p, k) ==
    IF k > Len(p) THEN <<>>
    ELSE LET e == PlaceholderEnd(p, k)
         IN IF e > 0
            THEN <<[t |-> "grp", v |-> SubSeq(p, k + 1, e - 1)]>> \o PatternNodes(p, e + 1)
            ELSE <<[t |-> "lit", v |-> <<p[k]>>]>> \o PatternNodes(p, k + 1)

\* re.compile rejects a pattern that names two groups alike (re.error).
CompileRaises(nodes) ==
    \E x, y \in 1..Len(nodes) :
        x < y /\ nodes[x].t = "grp" /\ nodes[y].t = "grp" /\ nodes[x].v = nodes[y].v

\* fault variant of SegmentRun: the group accepts "/" as well (.+ for [^/]+)
SegmentRunAcrossSlash(s, j) ==
    IF j > Len(s) THEN 0 ELSE Len(s) - j + 1

\* length of the run of non-"/" characters of s starting at j
RECURSIVE SegmentRun(_, _)
SegmentRun(s, j) ==
    IF j > Len(s) \/ s[j] = "/" THEN 0 ELSE 1 + SegmentRun(s, j + 1)

NoRegexMatch == [ok |-> FALSE, env |-> EmptyDict]

\* re.match of the anchored pattern: backtracking, each group greedy.
RECURSIVE RegexMatch(_, _, _, _, _)
RECURSIVE RegexGroup(_, _, _, _, _, _)
RegexMatch(nodes, n, s, j, env) ==
    IF n > Len(nodes)
    THEN IF j = Len(s) + 1 THEN [ok |-> TRUE, env |-> env] ELSE NoRegexMatch
    ELSE IF nodes[n].t = "lit"
         THEN IF j <= Len(s) /\ <<s[j]>> = nodes[n].v
              THEN RegexMatch(nodes, n + 1, s, j + 1, env)
              ELSE NoRegexMatch
         ELSE RegexGroup(nodes, n, s, j, env, SegmentRun(s, j))

RegexGroup(nodes, n, s, j, env, len) ==
    IF len = 0 THEN NoRegexMatch
    ELSE LET name == nodes[n].v
             bound == [x \in (DOMAIN env) \cup {name} |->
                          IF x = name THEN SubSeq(s, j, j + len - 1) ELSE env[x]]
             r == RegexMatch(nodes, n + 1, s, j + len, bound)
         IN IF r.ok THEN r ELSE RegexGroup(nodes, n, s, j, env, len - 1)

\* _extract_path_params: the groupdict of the match, None, or re.error
ExtractPathParams(template_path, request_path) ==
    LET nodes == PatternNodes(template_path, 1)
    IN IF CompileRaises(nodes)
       THEN [kind |-> "raise", none |-> TRUE, params |-> EmptyDict]
       ELSE LET m == RegexMatch(nodes, 1, request_path, 1, EmptyDict)
            IN IF m.ok
               THEN [kind |-> "ok", none |-> FALSE, params |-> m.env]
               ELSE [kind |-> "ok", none |-> TRUE, params |-> EmptyDict]

\* _matches_path: literal equality first, then the template
MatchesPath(mock_path, request_path) ==
    IF mock_path = request_path
    THEN [kind |-> "ok", matched |-> TRUE, params |-> EmptyDict]
    ELSE LET x == ExtractPathParams(mock_path, request_path)
         IN IF x.kind = "raise"
            THEN [kind |-> "raise", matched |-> FALSE, params |-> EmptyDict]
            ELSE IF ~x.none
                 THEN [kind |-> "ok", matched |-> TRUE, params |-> x.params]
                 ELSE [kind |-> "ok", matched |-> FALSE, params |-> EmptyDict]


(***************************************************************************)
(* Entities: MockDefinition, MatchCriteria, ResponseConfig, RequestContext.*)
(***************************************************************************)
\* an Optional[Dict[str, str]]: None, or the items in insertion order
NoneDict == [none |-> TRUE, items |-> <<>>]

Dict(items) == [none |-> FALSE, items |-> items]

\* Python truthiness of an Optional[Dict]
TruthyDict(d) == ~d.none /\ d.items # <<>>

\* str.upper() on the method names of the model
Upper(m) ==
    CASE m = "get" -> "GET"
      [] m = "post" -> "POST"
      [] OTHER -> m

\* str.lower() on the header names of the model
Lower(h) ==
    CASE h = "X-Env" -> "x-env"
      [] h = "X-ENV" -> "x-env"
      [] h = "Content-Type" -> "content-type"
      [] OTHER -> h

\* ResponseConfig and its dataclass defaults
ResponseConfig(status, headers, body, delay_ms, is_template, error_rate, error_status_code, error_body) ==
    [response_status |-> status, response_headers |-> headers,
     response_body |-> body, response_delay_ms |-> delay_ms,
     is_template |-> is_template, error_rate |-> error_rate,
     error_status_code |-> error_status_code, error_body |-> error_body]

DefaultResponseConfig == ResponseConfig(200, <<>>, "", 0, FALSE, 0, 500, "")

\* MockDefinition with its MatchCriteria flattened into match_* fields
MockDefinition(id, priority, enabled, mode, method, path, headers, response, upstream_url, timeout_seconds) ==
    [mock_id |-> id, mock_priority |-> priority, mock_enabled |-> enabled,
     mock_mode |-> mode, match_method |-> method, match_path |-> path,
     match_headers |-> headers, mock_response |-> response,
     upstream_url |-> upstream_url, timeout_seconds |-> timeout_seconds]

\* MockDefinition.is_active
IsActive(mock) == mock.mock_enabled

\* MockDefinition.get_match_path
GetMatchPath(mock) == mock.match_path

\* RequestContext; request_headers is the dict's items in insertion order
RequestContext(method, path, headers, client_ip) ==
    [request_method |-> method, request_path |-> path,
     request_headers |-> headers, client_ip |-> client_ip]

\* RequestContext.get_request_header: the first item whose key equals the
\* name case-insensitively, else None
RECURSIVE HeaderLookup(_, _, _)
HeaderLookup(items, k, header_name) ==
    IF k > Len(items) THEN NoneStr
    ELSE IF Lower(items[k][1]) = Lower(header_name) THEN items[k][2]
         ELSE HeaderLookup(items, k + 1, header_name)

GetRequestHeader(request, header_name) ==
    HeaderLookup(request.request_headers, 1, header_name)

(***************************************************************************)
(* MatchingService.                                                        *)
(***************************************************************************)
\* _matches_method
MatchesMethod(mock_method, request_method) ==
    Upper(mock_method) = Upper(request_method)

\* the header bonus of _score_match
HeaderBonus(mock, request) ==
    IF TruthyDict(mock.match_headers)
    THEN IF \A k \in 1..Len(mock.match_headers.items) :
               GetRequestHeader(request, mock.match_headers.items[k][1])
                   = mock.match_headers.items[k][2]
         THEN 500
         ELSE 0
    ELSE 0

\* fault variant of LiteralBonus: no bonus for an exact path
LiteralBonusDropped(path_params) == 0

\* the exact-path bonus of _score_match
LiteralBonus(path_params) ==
    IF DOMAIN path_params = {} THEN 1000 ELSE 0

\* _score_match
ScoreMatch(mock, request, path_params) ==
    mock.mock_priority + LiteralBonus(path_params) + HeaderBonus(mock, request)

\* fault variant of SkippedBeforePath: the enabled flag is not looked at
SkippedBeforePathIgnoringEnabled(mock, request) ==
    ~MatchesMethod(mock.match_method, request.request_method)

\* whether the loop of find_match skips a definition before the path check
SkippedBeforePath(mock, request) ==
    \/ ~IsActive(mock)
    \/ ~MatchesMethod(mock.match_method, request.request_method)

\* the loop of find_match from position k on: the candidates appended in
\* list order, or the exception that leaves the loop
RECURSIVE CollectCandidates(_, _, _, _)
CollectCandidates(request, mocks, k, acc) ==
    IF k > Len(mocks) THEN [kind |-> "ok", cands |-> acc]
    ELSE IF SkippedBeforePath(mocks[k], request)
         THEN CollectCandidates(request, mocks, k + 1, acc)
         ELSE LET pm == MatchesPath(GetMatchPath(mocks[k]), request.request_path)
              IN IF pm.kind = "raise" THEN [kind |-> "raise", cands |-> acc]
                 ELSE IF ~pm.matched
                      THEN CollectCandidates(request, mocks, k + 1, acc)
                      ELSE CollectCandidates(request, mocks, k + 1,
                               Append(acc, [mock |-> mocks[k],
                                            path_params |-> pm.params,
                                            score |-> ScoreMatch(mocks[k], request, pm.params)]))

\* fault variant of BestMatch: the first candidate, whatever the scores
BestMatchFirst(cands, k, best) == best

\* fault variant of BestMatch: the last of the candidates of maximal score
RECURSIVE BestMatchLast(_, _, _)
BestMatchLast(cands, k, best) ==
    IF k > Len(cands) THEN best
    ELSE IF cands[k].score >= best.score
         THEN BestMatchLast(cands, k + 1, cands[k])
         ELSE BestMatchLast(cands, k + 1, best)

\* max(candidates, key=score): the first candidate no later one exceeds
RECURSIVE BestMatch(_, _, _)
BestMatch(cands, k, best) ==
    IF k > Len(cands) THEN best
    ELSE IF cands[k].score > best.score
         THEN BestMatch(cands, k + 1, cands[k])
         ELSE BestMatch(cands, k + 1, best)

NoMock == MockDefinition(NoneStr, 0, FALSE, "mock", "GET", <<"/">>, NoneDict,
                         DefaultResponseConfig, NoneStr, 10)

\* find_match: None, (mock, path_params), or the exception raised
FindMatch(request, mocks) ==
    LET c == CollectCandidates(request, mocks, 1, <<>>)
    IN IF c.kind = "raise"
       THEN [kind |-> "raise", mock |-> NoMock, path_params |-> EmptyDict]
       ELSE IF c.cands = <<>>
            THEN [kind |-> "none", mock |-> NoMock, path_params |-> EmptyDict]
            ELSE LET best == BestMatch(c.cands, 2, c.cands[1])
                 IN [kind |-> "match", mock |-> best.mock,
                     path_params |-> best.path_params]

(***************************************************************************)
(* RateLimiterService.                                                     *)
(***************************************************************************)
\* the window of is_allowed, in seconds
Window == 60

\* the defaults of is_allowed
DefaultLimitPerMinute == 60

DefaultBurst == 10

Unknown == <<"u", "n", "k", "n", "o", "w", "n">>

\* fault variant of GetKey: the client address is left out of the key
GetKeyWithoutClient(mock_id, client_ip) == mock_id \o <<":">>

\* _get_key: f"{mock_id}:{ip}" with ip = client_ip or "unknown"
GetKey(mock_id, client_ip) ==
    mock_id \o <<":">> \o (IF TruthyStr(client_ip) THEN client_ip ELSE Unknown)

\* self._request_timestamps[key] of the defaultdict: an absent key reads as []
TimestampsOf(table, key) ==
    IF key \in DOMAIN table THEN table[key] ELSE <<>>

\* table[key] = value
SetItem(table, key, value) ==
    [k \in (DOMAIN table) \cup {key} |-> IF k = key THEN value ELSE table[k]]

\* [ts for ts in timestamps if ts > cutoff]
InsideWindow(timestamps, cutoff) ==
    SelectSeq(timestamps, LAMBDA ts : ts > cutoff)

\* fault variant of Admits: the count may reach the limits before denial
AdmitsOneMore(count, limit_per_minute, burst) ==
    count <= burst \/ count <= limit_per_minute

\* fault variant of Admits: the per-minute check is left out
AdmitsWithinBurstOnly(count, limit_per_minute, burst) ==
    count < burst

\* the burst check and the per-minute check of is_allowed
Admits(count, limit_per_minute, burst) ==
    count < burst \/ count < limit_per_minute

\* is_allowed: the table after the call and the value returned
IsAllowed(table, mock_id, client_ip, t, limit_per_minute, burst) ==
    LET key == GetKey(mock_id, client_ip)
        kept == InsideWindow(TimestampsOf(table, key), t - Window)
    IN IF Admits(Len(kept), limit_per_minute, burst)
       THEN [table |-> SetItem(table, key, Append(kept, t)), result |-> TRUE]
       ELSE [table |-> SetItem(table, key, kept), result |-> FALSE]

\* str.startswith
StartsWith(text, prefix) ==
    Len(prefix) <= Len(text) /\ SubSeq(text, 1, Len(prefix)) = prefix

\* fault variant of KeysOfMock: the keys of every mock id
KeysOfAnyMock(table, mock_id) ==
    DOMAIN table

\* the keys reset(mock_id) deletes: those starting with f"{mock_id}:"
KeysOfMock(table, mock_id) ==
    { k \in DOMAIN table : StartsWith(k, mock_id \o <<":">>) }

\* the table without the keys of a set
WithoutKeys(table, keys) ==
    [k \in (DOMAIN table) \ keys |-> table[k]]

\* reset: the table after the call
Reset(table, mock_id, client_ip) ==
    IF TruthyStr(mock_id) /\ TruthyStr(client_ip)
    THEN WithoutKeys(table, {GetKey(mock_id, client_ip)})
    ELSE IF TruthyStr(mock_id)
         THEN WithoutKeys(table, KeysOfMock(table, mock_id))
         ELSE EmptyDict

(***************************************************************************)
(* Responses.  A body is text, or the JSON object json.dumps writes, kept  *)
(* as its (name, value) items.                                             *)
(***************************************************************************)
NoContent == [format |-> "none", text |-> "", fields |-> <<>>]

TextContent(text) == [format |-> "text", text |-> text, fields |-> <<>>]

JsonContent(fields) == [format |-> "json", text |-> "", fields |-> fields]

NoResponse ==
    [kind |-> "none", status_code |-> 0, content |-> NoContent,
     headers |-> <<>>, media_type |-> "None", exception |-> "None"]

\* fastapi.Response(content, status_code, headers, media_type)
Response(content, status_code, headers, media_type) ==
    [kind |-> "response", status_code |-> status_code, content |-> content,
     headers |-> headers, media_type |-> media_type, exception |-> "None"]

\* an exception that leaves the handler
Raised(exception) ==
    [kind |-> "raise", status_code |-> 0, content |-> NoContent,
     headers |-> <<>>, media_type |-> "None", exception |-> exception]

\* dict.get(name, default) on header items: the name is compared as written
RECURSIVE HeadersGet(_, _, _, _)
HeadersGet(items, k, name, default) ==
    IF k > Len(items) THEN default
    ELSE IF items[k][1] = name THEN items[k][2]
         ELSE HeadersGet(items, k + 1, name, default)

(***************************************************************************)
(* InMemoryMockRepository.get_all: sorted by priority descending; sorted() *)
(* is stable, so equal priorities keep their insertion order.              *)
(***************************************************************************)
RECURSIVE InsertByPriority(_, _, _)
InsertByPriority(sorted, k, mock) ==
    IF k > Len(sorted) THEN Append(sorted, mock)
    ELSE IF sorted[k].mock_priority < mock.mock_priority
         THEN SubSeq(sorted, 1, k - 1) \o <<mock>> \o SubSeq(sorted, k, Len(sorted))
         ELSE InsertByPriority(sorted, k + 1, mock)

RECURSIVE SortByPriority(_, _, _)
SortByPriority(values, k, sorted) ==
    IF k > Len(values) THEN sorted
    ELSE SortByPriority(values, k + 1, InsertByPriority(sorted, 1, values[k]))

GetAll(stored) == SortByPriority(stored, 1, <<>>)

(***************************************************************************)
(* TemplateService.render_template on the bodies of the model.             *)
(***************************************************************************)
MethodTemplate == "{{ request.method }}"

\* an if block without a condition: env.from_string raises TemplateSyntaxError
BrokenTemplate == "{% if %}"

\* the body render_template returns from its except clauses
TemplateErrorBody == JsonContent(<< <<"error", "Template error">> >>)

\* env.from_string and template.render, on the bodies of the model
Jinja(template_str, request_context) ==
    IF template_str = BrokenTemplate
    THEN [kind |-> "TemplateError", text |-> ""]
    ELSE [kind |-> "ok",
          text |-> IF template_str = MethodTemplate THEN request_context.request_method
                   ELSE template_str]

\* fault variant of RenderTemplate: a template that fails is left as it is
RenderTemplateLeavingSource(template_str, request_context) ==
    LET result == Jinja(template_str, request_context)
    IN IF result.kind = "ok" THEN TextContent(result.text) ELSE TextContent(template_str)

RenderTemplate(template_str, request_context) ==
    LET result == Jinja(template_str, request_context)
    IN IF result.kind = "ok" THEN TextContent(result.text) ELSE TemplateErrorBody

(***************************************************************************)
(* ResponseService.                                                        *)
(***************************************************************************)
\* the values random.randint(0, 100) returns: both ends included
DrawValues == 0..100

NoDraw == -1

\* _prepare_body on a str body
PrepareBody(body) == body

\* _prepare_headers
PrepareHeaders(headers) ==
    IF \E k \in 1..Len(headers) : Lower(headers[k][1]) = "content-type"
    THEN headers
    ELSE Append(headers, <<"Content-Type", "application/json">>)

TooManyRequests ==
    Response(TextContent("Too Many Requests"), 429, << <<"Content-Type", "text/plain">> >>, "None")

ErrorResponse(response_config) ==
    Response(TextContent(response_config.error_body), response_config.error_status_code,
             PrepareHeaders(response_config.response_headers), "application/json")

\* what a run of the handler up to its next suspension leaves: where it
\* stands, the response, the limiter's table, whether is_allowed was called
\* and what it returned, the stages run and the value drawn
Outcome(pc, response, table, limited, allowed, stages, draw) ==
    [pc |-> pc, response |-> response, table |-> table, limited |-> limited,
     allowed |-> allowed, stages |-> stages, draw |-> draw]

\* fault variant of Renders: every body goes through the template service
RendersAlways(response_config) == TRUE

\* if self.template_service and response_config.is_template, with the
\* template service the response service is built with
Renders(response_config) == response_config.is_template

\* fault variant of GenerateFinish: the headers are assembled a second time
GenerateFinishHeadersTwice(mock_def, request_context) ==
    LET rc == mock_def.mock_response
        headers == PrepareHeaders(rc.response_headers)
    IN [response |-> Response(TextContent(PrepareBody(rc.response_body)), rc.response_status,
                              headers, HeadersGet(headers, 1, "Content-Type", "application/json")),
        stages |-> <<"headers", "body", "headers">>]

\* generate_response after the delay: body, rendering, headers, Response
GenerateFinish(mock_def, request_context) ==
    LET rc == mock_def.mock_response
        body_str == PrepareBody(rc.response_body)
        rendered == IF Renders(rc) THEN RenderTemplate(body_str, request_context)
                    ELSE TextContent(body_str)
        headers == PrepareHeaders(rc.response_headers)
    IN [response |-> Response(rendered, rc.response_status, headers,
                              HeadersGet(headers, 1, "Content-Type", "application/json")),
        stages |-> <<"body">> \o (IF Renders(rc) THEN <<"render">> ELSE <<>>) \o <<"headers">>]

\* fault variant of RateLimited: a denial is ignored
RateLimitedNever(allowed) == FALSE

\* if not allowed
RateLimited(allowed) == ~allowed

\* error_rate > 0 and random.randint(0, 100) < error_rate
InjectsError(error_rate, d) == error_rate > 0 /\ d < error_rate

\* generate_response up to its return or to asyncio.sleep; d is the value
\* random.randint returns if it is called
GenerateResponse(mock_def, request_context, table, t, d) ==
    LET rc == mock_def.mock_response
        lim == IsAllowed(table, mock_def.mock_id, request_context.client_ip, t, DefaultLimitPerMinute, DefaultBurst)
        drawn == IF rc.error_rate > 0 THEN d ELSE NoDraw
        checked == <<"response_service", "rate_limit">>
                      \o (IF rc.error_rate > 0 THEN <<"error_draw">> ELSE <<>>)
        fin == GenerateFinish(mock_def, request_context)
    IN IF RateLimited(lim.result)
       THEN Outcome("done", TooManyRequests, lim.table, TRUE, lim.result,
                    <<"response_service", "rate_limit">>, NoDraw)
       ELSE IF InjectsError(rc.error_rate, d)
            THEN Outcome("done", ErrorResponse(rc), lim.table, TRUE, lim.result,
                         checked \o <<"error_response">>, drawn)
            ELSE IF rc.response_delay_ms > 0
                 THEN Outcome("sleeping", NoResponse, lim.table, TRUE, lim.result,
                              checked \o <<"delay">>, drawn)
                 ELSE Outcome("done", fin.response, lim.table, TRUE, lim.result,
                              checked \o fin.stages, drawn)

(***************************************************************************)
(* ProxyService with the HTTPClient the handler builds for it.             *)
(***************************************************************************)
UpstreamNotConfigured ==
    Response(JsonContent(<< <<"error", "Upstream URL not configured">> >>), 500, <<>>, "application/json")

ProxyRequestFailed ==
    Response(JsonContent(<< <<"error", "Proxy request failed">> >>), 500, <<>>, "application/json")

\* HTTPClient.__init__(timeout=10)
DefaultTimeout == 10

\* handle_mock_request builds ProxyService(http_client=HTTPClient())
HandlerGivesClient == TRUE

\* the timeout of the client the upstream call goes through: the service
\* builds HTTPClient(timeout=mock_def.timeout_seconds) only if it holds none
TimeoutInForce(mock_def, has_client) ==
    IF has_client THEN DefaultTimeout ELSE mock_def.timeout_seconds

\* the outcomes of HTTPClient.proxy_request: a ProxyResponse of some status,
\* the TimeoutError and the ConnectionError its except clauses raise, and an
\* exception of another class, raised where the client is built, before the
\* try
UpstreamOk(status_code) == [kind |-> "ok", status_code |-> status_code]

UpstreamRaises(exception) == [kind |-> exception, status_code |-> 0]

NoUpstreamResult == [kind |-> "none", status_code |-> 0]

UpstreamOutcomes ==
    { UpstreamOk(status_code) : status_code \in {200, 503} }
        \cup { UpstreamRaises(e) : e \in {"TimeoutError", "ConnectionError", "RuntimeError"} }

UpstreamHeaders == << <<"content-type", "text/plain">> >>

\* the status, headers and content of the ProxyResponse, handed on
UpstreamResponse(result) ==
    Response(TextContent("upstream"), result.status_code, UpstreamHeaders, "None")

\* fault variant of FallsBack: a timeout is not caught
FallsBackOnConnectionOnly(exception) == exception = "ConnectionError"

\* fault variant of FallsBack: every exception is caught
FallsBackOnAnyFailure(exception) == TRUE

\* except (TimeoutError, ConnectionError) of _proxy_with_fallback
FallsBack(exception) == exception \in {"TimeoutError", "ConnectionError"}

\* fault variant of AwaitUpstream: the proxy service resets the limiter
AwaitUpstreamForgetting(table) ==
    Outcome("upstream", NoResponse, EmptyDict, FALSE, FALSE, <<"proxy_service", "upstream_call">>, NoDraw)

\* the proxy service up to its upstream call: the limiter is not touched
AwaitUpstream(table) ==
    Outcome("upstream", NoResponse, table, FALSE, FALSE, <<"proxy_service", "upstream_call">>, NoDraw)

\* an outcome of generate_response reached through the proxy service
ThroughProxy(outcome) == [outcome EXCEPT !.stages = <<"proxy_service">> \o @]

\* fault variant of FallbackWithoutUpstream: the missing upstream_url is an error
FallbackWithoutUpstreamAsError(mock_def, request_context, table, t, d) ==
    Outcome("done", UpstreamNotConfigured, table, FALSE, FALSE, <<"proxy_service">>, NoDraw)

\* _proxy_with_fallback when upstream_url is missing
FallbackWithoutUpstream(mock_def, request_context, table, t, d) ==
    ThroughProxy(GenerateResponse(mock_def, request_context, table, t, d))

\* handle_proxy_request up to its return or to the upstream call
HandleProxyRequest(mock_def, request_context, table, t, d) ==
    IF ~TruthyStr(mock_def.upstream_url)
    THEN CASE mock_def.mock_mode = "proxy" ->
                Outcome("done", UpstreamNotConfigured, table, FALSE, FALSE, <<"proxy_service">>, NoDraw)
           [] mock_def.mock_mode = "proxy-with-fallback" ->
                FallbackWithoutUpstream(mock_def, request_context, table, t, d)
           [] OTHER ->
                Outcome("done", Raised("ValueError"), table, FALSE, FALSE, <<"proxy_service">>, NoDraw)
    ELSE AwaitUpstream(table)

\* fault variant of PureProxyFailure: the mock response is the fallback
PureProxyFallsBack(mock_def, request_context, table, t, d) ==
    GenerateResponse(mock_def, request_context, table, t, d)

\* except Exception of _pure_proxy
PureProxyFailure(mock_def, request_context, table, t, d) ==
    Outcome("done", ProxyRequestFailed, table, FALSE, FALSE, <<>>, NoDraw)

\* handle_proxy_request from the return of the upstream call on
AfterUpstream(mock_def, request_context, table, t, d, result) ==
    IF result.kind = "ok"
    THEN Outcome("done", UpstreamResponse(result), table, FALSE, FALSE, <<>>, NoDraw)
    ELSE CASE mock_def.mock_mode = "proxy" ->
                PureProxyFailure(mock_def, request_context, table, t, d)
           [] mock_def.mock_mode = "proxy-with-fallback" /\ FallsBack(result.kind) ->
                GenerateResponse(mock_def, request_context, table, t, d)
           [] OTHER ->
                Outcome("done", Raised(result.kind), table, FALSE, FALSE, <<>>, NoDraw)

(***************************************************************************)
(* handle_mock_request.                                                    *)
(***************************************************************************)
NotFound(request_context) ==
    Response(JsonContent(<< <<"error", "No matching mock found">>,
                            <<"path", request_context.request_path>>,
                            <<"method", request_context.request_method>> >>),
             404, <<>>, "application/json")

ProxyModes == {"proxy", "proxy-with-fallback", "passthrough"}

\* handle_mock_request from the result of find_match to its return or to its
\* first suspension
Dispatch(found, request_context, table, t, d) ==
    IF found.kind = "raise"
    THEN Outcome("done", Raised("re.error"), table, FALSE, FALSE, <<>>, NoDraw)
    ELSE IF found.kind = "none"
         THEN Outcome("done", NotFound(request_context), table, FALSE, FALSE, <<>>, NoDraw)
         ELSE IF found.mock.mock_mode \in ProxyModes
              THEN HandleProxyRequest(found.mock, request_context, table, t, d)
              ELSE GenerateResponse(found.mock, request_context, table, t, d)

(***************************************************************************)
(* InMemoryStateRepository.  _store maps a session to its dict of values;  *)
(* a value is kept as the text str() writes.                               *)
(***************************************************************************)
DefaultSession == <<"d", "e", "f", "a", "u", "l", "t">>

\* fault variant of SessionOf: every call lands in the default session
SessionIgnored(session_id) == DefaultSession

\* session_id or "default"
SessionOf(session_id) == IF TruthyStr(session_id) THEN session_id ELSE DefaultSession

DecimalDigits == <<"0", "1", "2", "3", "4", "5", "6", "7", "8", "9">>

RECURSIVE NatStr(_)
NatStr(n) ==
    IF n < 10 THEN <<DecimalDigits[n + 1]>>
    ELSE Append(NatStr(n \div 10), DecimalDigits[(n % 10) + 1])

\* str() of an int
PyStr(n) == IF n < 0 THEN <<"-">> \o NatStr(0 - n) ELSE NatStr(n)

DigitValue(c) == CHOOSE d \in 0..9 : DecimalDigits[d + 1] = c

RECURSIVE NatOf(_, _)
NatOf(s, k) == IF k = 0 THEN 0 ELSE 10 * NatOf(s, k - 1) + DigitValue(s[k])

\* int() of the text of an int
PyInt(s) == IF s[1] = "-" THEN 0 - NatOf(Tail(s), Len(s) - 1) ELSE NatOf(s, Len(s))

\* fault variant of NewValue: the value the call starts from is lost
NewValueFromZero(current, delta) == delta

\* new_val = current + delta
NewValue(current, delta) == current + delta

\* increment: the store it leaves and the value it returns
Increment(table, state_key, session_id, delta) ==
    LET session == SessionOf(session_id)
        opened == IF session \in DOMAIN table THEN table ELSE SetItem(table, session, EmptyDict)
        current == IF state_key \in DOMAIN opened[session]
                   THEN PyInt(opened[session][state_key]) ELSE 0
        new_val == NewValue(current, delta)
    IN [store |-> SetItem(opened, session, SetItem(opened[session], state_key, PyStr(new_val))),
        value |-> new_val]

(***************************************************************************)
(* State.                                                                  *)
(***************************************************************************)
VARIABLES
    mocks,               \* InMemoryMockRepository._mocks in insertion order; the candidate list of find_match
    request,             \* the RequestContext being handled
    path_result,         \* what _matches_path returned or raised
    match_result,        \* what find_match returned or raised
    request_timestamps,  \* RateLimiterService._request_timestamps
    now,                 \* time.time(), in seconds
    limits,              \* the limit_per_minute and burst the is_allowed calls pass
    last_call,           \* the last call of the limiter: its arguments and its result
    calls,               \* number of calls made of the limiter
    streak,              \* per (mock id, client address): the is_allowed calls made since its last reset
    pc,                  \* where the request handler stands
    response,            \* the Response returned, or the exception raised
    invoked,             \* the components and stages run for the request, in order
    draw,                \* the value random.randint returned, -1 when it was not called
    handled,             \* number of requests received
    upstream_result,     \* what the upstream call of the request returned or raised
    store,               \* InMemoryStateRepository._store
    batch,               \* the increment calls gathered to run concurrently, if any
    tasks,               \* per gathered call: where it stands and what it returned
    increments,          \* the increment calls that have run: their arguments, in order
    matched_mock,        \* the MockDefinition object the handler holds, as it is now
    admin_log            \* the admin operations completed, in order

vars == <<mocks, request, path_result, match_result, request_timestamps, now,
          limits, last_call, calls, streak, pc, response, invoked, draw, handled,
          upstream_result, store, batch, tasks, increments, matched_mock, admin_log>>

limiterVars == <<request_timestamps, now, limits, last_call, calls, streak>>

handlerVars == <<pc, response, invoked, draw, handled, upstream_result>>

counterVars == <<store, batch, tasks, increments>>

adminVars == <<matched_mock, admin_log>>

PendingPath == [kind |-> "pending", matched |-> FALSE, params |-> EmptyDict]

PendingMatch == [kind |-> "pending", mock |-> NoMock, path_params |-> EmptyDict]

NoCall == [op |-> "none", mock_id |-> NoneStr, client_ip |-> NoneStr, result |-> FALSE]

\* the limiter and the handler at rest
LimiterAtRest ==
    /\ request_timestamps = EmptyDict
    /\ now = 0
    /\ limits = [limit_per_minute |-> 0, burst |-> 0]
    /\ last_call = NoCall
    /\ calls = 0
    /\ streak = EmptyDict

HandlerAtRest ==
    /\ pc = "idle"
    /\ response = NoResponse
    /\ invoked = <<>>
    /\ draw = NoDraw
    /\ handled = 0
    /\ upstream_result = NoUpstreamResult

NoBatch == [active |-> FALSE, state_key |-> NoneStr, session_id |-> NoneStr, delta |-> 0, prior |-> 0]

CountersAtRest ==
    /\ store = EmptyDict
    /\ batch = NoBatch
    /\ tasks = <<>>
    /\ increments = <<>>

AdminAtRest ==
    /\ matched_mock = NoMock
    /\ admin_log = <<>>

(***************************************************************************)
(* SpecPath: _matches_path applied to a pattern and a request path.        *)
(***************************************************************************)
\* "/a", "/a/b", "/{i}", "/a/{i}", "/{i}/{j}", "/{i}/{i}", "/a/{i", "/{}",
\* "/a{i}", "/{i}{j}"
PathPatterns ==
    { <<"/", "a">>,
      <<"/", "a", "/", "b">>,
      <<"/", "{", "i", "}">>,
      <<"/", "a", "/", "{", "i", "}">>,
      <<"/", "{", "i", "}", "/", "{", "j", "}">>,
      <<"/", "{", "i", "}", "/", "{", "i", "}">>,
      <<"/", "a", "/", "{", "i">>,
      <<"/", "{", "}">>,
      <<"/", "a", "{", "i", "}">>,
      <<"/", "{", "i", "}", "{", "j", "}">> }

\* every request path of at most MaxPathLen characters
RequestPaths ==
    { <<"/">> \o t : t \in UNION { [1..n -> RequestPathChars] : n \in 0..(MaxPathLen - 1) } }

PatternMock(path) ==
    MockDefinition(<<"m", "1">>, 100, TRUE, "mock", "GET", path, NoneDict, DefaultResponseConfig, NoneStr, 10)

InitPath ==
    /\ mocks \in { <<PatternMock(p)>> : p \in PathPatterns }
    /\ request \in { RequestContext("GET", r, <<>>, NoneStr) : r \in RequestPaths }
    /\ path_result = PendingPath
    /\ match_result = PendingMatch
    /\ LimiterAtRest
    /\ HandlerAtRest
    /\ CountersAtRest
    /\ AdminAtRest

CallMatchesPath ==
    /\ path_result.kind = "pending"
    /\ path_result' = MatchesPath(GetMatchPath(mocks[1]), request.request_path)
    /\ UNCHANGED <<adminVars, counterVars, mocks, request, match_result, limiterVars, handlerVars>>

NextPath == CallMatchesPath

SpecPath == InitPath /\ [][NextPath]_vars

(***************************************************************************)
(* SpecMatch: find_match applied to a request and a candidate list.        *)
(***************************************************************************)
MaxMocks == 2

IdDigits == <<"1", "2", "3", "4", "5", "6", "7", "8", "9">>

IdOf(k) == <<"m", IdDigits[k]>>

PathA == <<"/", "a">>

PathB == <<"/", "b">>

TemplateI == <<"/", "{", "i", "}">>

TemplateII == <<"/", "{", "i", "}", "/", "{", "i", "}">>

EnvIsOne == Dict(<< <<"X-Env", "1">> >>)

MatchDef(enabled, method, path, priority, headers) ==
    MockDefinition(NoneStr, priority, enabled, "mock", method, path, headers, DefaultResponseConfig, NoneStr, 10)

\* the definitions a candidate list is drawn from
MatchDefs ==
    { MatchDef(TRUE, "get", p, pr, NoneDict) : p \in {PathA, TemplateI}, pr \in {10, 100, 1200} }
    \cup { MatchDef(FALSE, "get", p, 1200, NoneDict) : p \in {PathA, TemplateI, TemplateII} }
    \cup { MatchDef(TRUE, "get", p, pr, EnvIsOne) : p \in {PathA, TemplateI}, pr \in {10, 100} }
    \cup { MatchDef(TRUE, "POST", PathA, 100, NoneDict),
           MatchDef(TRUE, "get", PathA, 200, NoneDict),
           MatchDef(TRUE, "get", PathA, 100, Dict(<<>>)),
           MatchDef(TRUE, "get", TemplateII, 100, NoneDict) }

\* the ids of a repository are distinct: the id is the position
WithIds(defs) == [k \in 1..Len(defs) |-> [defs[k] EXCEPT !.mock_id = IdOf(k)]]

CandidateLists ==
    { WithIds(l) : l \in UNION { [1..n -> MatchDefs] : n \in 0..MaxMocks } }

MatchRequests ==
    { RequestContext(m, p, h, NoneStr) :
        m \in {"GET", "POST"},
        p \in {PathA, PathB},
        h \in { <<>>, << <<"x-env", "1">> >>, << <<"X-ENV", "2">> >> } }

InitMatch ==
    /\ mocks \in CandidateLists
    /\ request \in MatchRequests
    /\ path_result = PendingPath
    /\ match_result = PendingMatch
    /\ LimiterAtRest
    /\ HandlerAtRest
    /\ CountersAtRest
    /\ AdminAtRest

CallFindMatch ==
    /\ match_result.kind = "pending"
    /\ match_result' = FindMatch(request, mocks)
    /\ UNCHANGED <<adminVars, counterVars, mocks, request, path_result, limiterVars, handlerVars>>

NextMatch == CallFindMatch

SpecMatch == InitMatch /\ [][NextMatch]_vars

(***************************************************************************)
(* SpecLimiter: is_allowed and reset called on one RateLimiterService      *)
(* while time passes.  Mock ids are the str(uuid.uuid4()) of the mapper:   *)
(* texts of one length that hold no ":".                                   *)
(***************************************************************************)
MaxCalls == 5

MaxNow == 90

TickSteps == {30, 60}

LimiterMockIds == {IdOf(1), IdOf(2)}

ClientIps == {NoneStr, <<"a">>}

\* the (limit_per_minute, burst) a behaviour passes to every is_allowed call
LimitChoices ==
    { [limit_per_minute |-> l, burst |-> b] : l \in {1, 2}, b \in {1, 2} }

\* a (mock id, client address) pair; an absent address counts as "unknown"
PairOf(mock_id, client_ip) ==
    <<mock_id, IF TruthyStr(client_ip) THEN client_ip ELSE Unknown>>

Pairs == { PairOf(m, ip) : m \in LimiterMockIds, ip \in ClientIps }

FreshStreak == [times |-> <<>>, last_result |-> "none", reset_after |-> "none"]

\* the record of a pair after a reset that covers it
StreakAfterReset(entry) ==
    [times |-> <<>>, last_result |-> "none", reset_after |-> entry.last_result]

InitLimiter ==
    /\ mocks = <<>>
    /\ request = RequestContext("GET", PathA, <<>>, NoneStr)
    /\ path_result = PendingPath
    /\ match_result = PendingMatch
    /\ request_timestamps = EmptyDict
    /\ now = 0
    /\ limits \in LimitChoices
    /\ last_call = NoCall
    /\ calls = 0
    /\ streak = [p \in Pairs |-> FreshStreak]
    /\ HandlerAtRest
    /\ CountersAtRest
    /\ AdminAtRest

CallIsAllowed(mock_id, client_ip) ==
    LET r == IsAllowed(request_timestamps, mock_id, client_ip, now, limits.limit_per_minute, limits.burst)
        p == PairOf(mock_id, client_ip)
    IN /\ calls < MaxCalls
       /\ request_timestamps' = r.table
       /\ last_call' = [op |-> "is_allowed", mock_id |-> mock_id, client_ip |-> client_ip, result |-> r.result]
       /\ calls' = calls + 1
       /\ streak' = [streak EXCEPT ![p] = [times |-> Append(@.times, now),
                                           last_result |-> IF r.result THEN "admitted" ELSE "denied",
                                           reset_after |-> @.reset_after]]
       /\ UNCHANGED <<adminVars, counterVars, mocks, request, path_result, match_result, now, limits, handlerVars>>

\* reset(mock_id, client_ip), reset(mock_id) and reset()
CallReset(mock_id, client_ip) ==
    /\ calls < MaxCalls
    /\ TruthyStr(client_ip) => TruthyStr(mock_id)
    /\ request_timestamps' = Reset(request_timestamps, mock_id, client_ip)
    /\ last_call' = [op |-> "reset", mock_id |-> mock_id, client_ip |-> client_ip, result |-> FALSE]
    /\ calls' = calls + 1
    /\ streak' = [p \in Pairs |->
                    IF \/ mock_id = NoneStr
                       \/ mock_id = p[1] /\ client_ip = NoneStr
                       \/ <<mock_id, client_ip>> = p
                    THEN StreakAfterReset(streak[p])
                    ELSE streak[p]]
    /\ UNCHANGED <<adminVars, counterVars, mocks, request, path_result, match_result, now, limits, handlerVars>>

Tick(d) ==
    /\ now + d <= MaxNow
    /\ now' = now + d
    /\ UNCHANGED <<adminVars, counterVars, mocks, request, path_result, match_result, request_timestamps,
                   limits, last_call, calls, streak, handlerVars>>

NextLimiter ==
    \/ \E m \in LimiterMockIds, ip \in ClientIps : CallIsAllowed(m, ip)
    \/ \E m \in LimiterMockIds \cup {NoneStr}, ip \in ClientIps : CallReset(m, ip)
    \/ \E d \in TickSteps : Tick(d)

SpecLimiter == InitLimiter /\ [][NextLimiter]_vars

(***************************************************************************)
(* Spec: requests handled one after the other by handle_mock_request over  *)
(* a repository, with the limiter of the response service, while time      *)
(* passes.  The limiter's table starts empty, or as 59 requests of one     *)
(* client answered by generate_response for the repository's one           *)
(* definition within the same second leave it.                             *)
(***************************************************************************)
MaxRequests == 2

UpstreamUrl == <<"u">>

PlainOk == ResponseConfig(200, <<>>, "ok", 0, FALSE, 0, 500, "")

AlwaysFails == ResponseConfig(200, <<>>, "ok", 0, FALSE, 100, 503, "fail")

SlowTemplate ==
    ResponseConfig(201, << <<"Content-Type", "text/plain">> >>, MethodTemplate, 5, TRUE, 50, 503, "fail")

\* a template that does not compile, to be rendered
FailingTemplate == ResponseConfig(202, <<>>, BrokenTemplate, 0, TRUE, 0, 500, "")

\* bodies with template delimiters, not to be rendered
LiteralBraces == ResponseConfig(200, <<>>, MethodTemplate, 0, FALSE, 0, 500, "")

LiteralBlock == ResponseConfig(200, <<>>, BrokenTemplate, 0, FALSE, 0, 500, "")

EngineDef(mode, path, enabled, priority, config, upstream_url) ==
    MockDefinition(NoneStr, priority, enabled, mode, "GET", path, NoneDict, config, upstream_url, 10)

MockDef(path, config) == EngineDef("mock", path, TRUE, 100, config, NoneStr)

\* a proxy definition with a timeout of its own
QuickProxy == [EngineDef("proxy", PathA, TRUE, 100, PlainOk, UpstreamUrl) EXCEPT !.timeout_seconds = 3]

EngineRepositories ==
    { WithIds(l) : l \in
        { <<>>,
          <<EngineDef("mock", PathA, FALSE, 100, PlainOk, NoneStr)>>,
          <<MockDef(TemplateII, PlainOk)>>,
          <<MockDef(TemplateII, PlainOk), MockDef(PathA, PlainOk)>>,
          <<EngineDef("mock", PathA, TRUE, 10, PlainOk, NoneStr), MockDef(PathA, AlwaysFails)>> }
        \cup { <<MockDef(PathA, r)>> : r \in {PlainOk, AlwaysFails, SlowTemplate, FailingTemplate, LiteralBraces, LiteralBlock} }
        \cup { <<EngineDef(mode, PathA, TRUE, 100, SlowTemplate, u)>> :
                 mode \in ProxyModes, u \in {NoneStr, UpstreamUrl} }
        \cup { <<EngineDef("proxy-with-fallback", PathA, TRUE, 100, PlainOk, UpstreamUrl)>>,
               <<QuickProxy>> } }

EngineRequests ==
    { RequestContext(m, p, <<>>, ip) : m \in {"GET", "POST"}, p \in {PathA, PathB}, ip \in ClientIps }

\* the table after n requests of one client admitted for one definition at time 0
TableAfter(mock_id, client_ip, n) ==
    [k \in {GetKey(mock_id, client_ip)} |-> [i \in 1..n |-> 0]]

InitialTables(repository) ==
    {EmptyDict} \cup
        (IF /\ Len(repository) = 1
            /\ \/ repository[1].mock_mode = "mock"
               \/ repository[1].mock_mode = "proxy-with-fallback" /\ repository[1].upstream_url = UpstreamUrl
            /\ repository[1].mock_enabled
            /\ repository[1].match_path = PathA
         THEN {TableAfter(repository[1].mock_id, <<"a">>, DefaultLimitPerMinute - 1)}
         ELSE {})

Init ==
    /\ mocks \in EngineRepositories
    /\ request = RequestContext("GET", PathA, <<>>, NoneStr)
    /\ path_result = PendingPath
    /\ match_result = PendingMatch
    /\ request_timestamps \in InitialTables(mocks)
    /\ now = 0
    /\ limits = [limit_per_minute |-> DefaultLimitPerMinute, burst |-> DefaultBurst]
    /\ last_call = NoCall
    /\ calls = 0
    /\ streak = EmptyDict
    /\ HandlerAtRest
    /\ CountersAtRest
    /\ AdminAtRest

\* fault variant of HeadersLeftInDefinition: the default Content-Type is
\* written into the definition's own dict
HeadersLeftWithDefault(response_headers) == PrepareHeaders(response_headers)

\* response_config.response_headers once _prepare_headers has returned: the
\* call is given response_headers.copy() and builds the dict it returns
HeadersLeftInDefinition(response_headers) == response_headers

\* the definition object after the stages a run of generate_response went through
DefinitionAfter(mock_def, stages) ==
    IF \E k \in 1..Len(stages) : stages[k] \in {"error_response", "headers"}
    THEN [mock_def EXCEPT !.mock_response.response_headers = HeadersLeftInDefinition(@)]
    ELSE mock_def

\* the repository's values, the object of the definition's id being as given
WithObject(repository, mock_def) ==
    [k \in 1..Len(repository) |->
        IF repository[k].mock_id = mock_def.mock_id THEN mock_def ELSE repository[k]]

\* the handler's state after a run that leaves the outcome out
Becomes(out, mock_def, request_context, stages) ==
    /\ pc' = out.pc
    /\ response' = out.response
    /\ request_timestamps' = out.table
    /\ invoked' = stages \o out.stages
    /\ draw' = out.draw
    /\ last_call' = IF out.limited
                    THEN [op |-> "is_allowed", mock_id |-> mock_def.mock_id,
                          client_ip |-> request_context.client_ip, result |-> out.allowed]
                    ELSE last_call
    /\ calls' = IF out.limited THEN calls + 1 ELSE calls

\* the values random.randint may return to a run of generate_response for
\* the definition: it is called only when error_rate > 0
DrawsFor(mock_def) ==
    IF mock_def.mock_response.error_rate > 0 THEN DrawValues ELSE {NoDraw}

\* handle_mock_request from the arrival of a request to its return or to its
\* first suspension
HandleRequest(request_context, found, d) ==
    /\ pc \in {"idle", "done"}
    /\ handled < MaxRequests
    /\ handled' = handled + 1
    /\ upstream_result' = NoUpstreamResult
    /\ request' = request_context
    /\ match_result' = found
    /\ \E out \in {Dispatch(found, request_context, request_timestamps, now, d)} :
          \E after \in {DefinitionAfter(found.mock, out.stages)} :
             /\ Becomes(out, found.mock, request_context, <<"find_match">>)
             /\ matched_mock' = after
             /\ mocks' = WithObject(mocks, after)
    /\ UNCHANGED <<admin_log, counterVars, path_result, now, limits, streak>>

\* asyncio.sleep returns: generate_response runs to its return
DelayElapsed ==
    /\ pc = "sleeping"
    /\ \E fin \in {GenerateFinish(matched_mock, request)} :
          \E after \in {DefinitionAfter(matched_mock, fin.stages)} :
             /\ pc' = "done"
             /\ response' = fin.response
             /\ invoked' = invoked \o fin.stages
             /\ matched_mock' = after
             /\ mocks' = WithObject(mocks, after)
    /\ UNCHANGED <<admin_log, counterVars, request, path_result, match_result, limiterVars, draw, handled,
                   upstream_result>>

\* the upstream call returns or raises: handle_proxy_request runs to its
\* return or to the delay of the fallback
UpstreamReturns(result, d) ==
    /\ pc = "upstream"
    /\ upstream_result' = result
    /\ \E out \in {AfterUpstream(matched_mock, request, request_timestamps, now, d, result)} :
          \E after \in {DefinitionAfter(matched_mock, out.stages)} :
             /\ Becomes(out, matched_mock, request, invoked)
             /\ matched_mock' = after
             /\ mocks' = WithObject(mocks, after)
    /\ UNCHANGED <<admin_log, counterVars, request, path_result, match_result, now, limits, streak, handled>>

Next ==
    \/ \E r \in EngineRequests :
          \E found \in {FindMatch(r, GetAll(mocks))} :
             \E d \in DrawsFor(found.mock) : HandleRequest(r, found, d)
    \/ DelayElapsed
    \/ \E result \in UpstreamOutcomes :
          \E d \in DrawsFor(matched_mock) : UpstreamReturns(result, d)
    \/ Tick(Window)

Spec == Init /\ [][Next]_vars

(***************************************************************************)
(* SpecAdmin: the admin use cases (create, update, toggle, delete) run on  *)
(* the repository the request handler reads, between requests and while a  *)
(* request is suspended in its delay or in its upstream call.  The use     *)
(* cases await only the in-memory repository, which awaits nothing, so     *)
(* each runs as one step.  The repository stores the entity objects        *)
(* themselves: get_by_id and get_all hand out the stored object, and       *)
(* apply_update and toggle assign to its fields.                           *)
(***************************************************************************)
MaxAdminOps == 3

\* MockMapper.dto_to_entity: the error fields of the DTO are not passed on
DtoToEntity(dto, mock_id) ==
    MockDefinition(mock_id, dto.mock_priority, dto.mock_enabled, dto.mock_mode,
                   dto.match_method, dto.match_path, dto.match_headers,
                   ResponseConfig(dto.response_status, dto.response_headers, dto.response_body,
                                  dto.response_delay_ms, dto.is_template,
                                  DefaultResponseConfig.error_rate,
                                  DefaultResponseConfig.error_status_code,
                                  DefaultResponseConfig.error_body),
                   dto.upstream_url, dto.timeout_seconds)

CreateMockDTO(priority, enabled, path, status, body, error_rate) ==
    [mock_priority |-> priority, mock_enabled |-> enabled, mock_mode |-> "mock",
     match_method |-> "GET", match_path |-> path, match_headers |-> NoneDict,
     response_status |-> status, response_headers |-> <<>>, response_body |-> body,
     response_delay_ms |-> 0, is_template |-> FALSE, error_rate |-> error_rate,
     error_status_code |-> 500, error_body |-> "", upstream_url |-> NoneStr,
     timeout_seconds |-> 10]

\* a field of an UpdateMockDTO is not None
Given(update_dto, field) == field \in DOMAIN update_dto

\* MockMapper.apply_update: the entity object after the assignments
ApplyUpdate(entity, update_dto) ==
    LET rc == entity.mock_response
        config ==
            [rc EXCEPT
               !.response_status = IF Given(update_dto, "response_status")
                                   THEN update_dto.response_status ELSE @,
               !.response_headers = IF Given(update_dto, "response_headers")
                                    THEN update_dto.response_headers ELSE @,
               !.response_body = IF Given(update_dto, "response_body")
                                 THEN update_dto.response_body ELSE @,
               !.response_delay_ms = IF Given(update_dto, "response_delay_ms")
                                     THEN update_dto.response_delay_ms ELSE @,
               !.is_template = IF Given(update_dto, "is_template")
                               THEN update_dto.is_template ELSE @]
    IN [entity EXCEPT
          !.mock_priority = IF Given(update_dto, "mock_priority") THEN update_dto.mock_priority ELSE @,
          !.mock_enabled = IF Given(update_dto, "mock_enabled") THEN update_dto.mock_enabled ELSE @,
          !.mock_mode = IF Given(update_dto, "mock_mode") THEN update_dto.mock_mode ELSE @,
          !.mock_response = config,
          !.upstream_url = IF Given(update_dto, "upstream_url") THEN update_dto.upstream_url ELSE @,
          !.timeout_seconds = IF Given(update_dto, "timeout_seconds")
                              THEN update_dto.timeout_seconds ELSE @]

\* fault variant of Toggled: the flag stays as it is
ToggledNot(entity) == entity

\* existing.mock_enabled = not existing.mock_enabled
Toggled(entity) == [entity EXCEPT !.mock_enabled = ~@]

\* get_by_id: the positions of the id among the stored values, none or one
PositionsOf(repository, mock_id) ==
    { k \in 1..Len(repository) : repository[k].mock_id = mock_id }

\* del self._mocks[mock_id]
Deleted(repository, mock_id) ==
    SelectSeq(repository, LAMBDA mock : mock.mock_id # mock_id)

\* a template answered after a delay, without error injection
SlowAnswer == ResponseConfig(201, <<>>, MethodTemplate, 5, TRUE, 0, 500, "")

AdminRepositories ==
    { WithIds(l) : l \in
        { <<MockDef(PathA, SlowAnswer)>>,
          <<MockDef(PathA, PlainOk), EngineDef("mock", PathA, TRUE, 10, SlowAnswer, NoneStr)>>,
          <<EngineDef("proxy-with-fallback", PathA, TRUE, 100, SlowAnswer, UpstreamUrl)>> } }

AdminRequests ==
    { RequestContext("GET", p, <<>>, <<"a">>) : p \in {PathA, PathB} }

CreateMockDTOs ==
    { CreateMockDTO(100, TRUE, PathB, 200, "ok", 100),
      CreateMockDTO(200, FALSE, PathA, 203, "later", 0) }

UpdateMockDTOs ==
    { [response_status |-> 202, response_body |-> "new",
       response_headers |-> << <<"Content-Type", "text/plain">> >>, is_template |-> FALSE],
      [mock_enabled |-> FALSE] }

\* the ids ever given out are IdOf(1), IdOf(2), ...: uuid4 never repeats one
UsedIds ==
    { mocks[k].mock_id : k \in 1..Len(mocks) }
        \cup { admin_log[k].mock_id : k \in 1..Len(admin_log) }
        \cup {matched_mock.mock_id}

FreshId == IdOf(1 + Cardinality({ k \in 1..Len(IdDigits) : IdOf(k) \in UsedIds }))

\* what an operation means for the enabled flag of its definition
Logged(op, mock_id, enabled) == [op |-> op, mock_id |-> mock_id, enabled |-> enabled]

InitAdmin ==
    /\ mocks \in AdminRepositories
    /\ request = RequestContext("GET", PathA, <<>>, NoneStr)
    /\ path_result = PendingPath
    /\ match_result = PendingMatch
    /\ request_timestamps = EmptyDict
    /\ now = 0
    /\ limits = [limit_per_minute |-> DefaultLimitPerMinute, burst |-> DefaultBurst]
    /\ last_call = NoCall
    /\ calls = 0
    /\ streak = EmptyDict
    /\ HandlerAtRest
    /\ CountersAtRest
    /\ AdminAtRest

\* CreateMockUseCase.execute
AdminCreate(dto) ==
    /\ Len(admin_log) < MaxAdminOps
    /\ mocks' = Append(mocks, DtoToEntity(dto, FreshId))
    /\ admin_log' = Append(admin_log, Logged("create", FreshId, IF dto.mock_enabled THEN "on" ELSE "off"))
    /\ UNCHANGED <<matched_mock, counterVars, request, path_result, match_result, limiterVars, handlerVars>>

\* UpdateMockUseCase.execute for a stored id
AdminUpdate(mock_id, dto) ==
    /\ Len(admin_log) < MaxAdminOps
    /\ \E k \in PositionsOf(mocks, mock_id) :
          \E updated \in {ApplyUpdate(mocks[k], dto)} :
             /\ mocks' = WithObject(mocks, updated)
             /\ matched_mock' = IF matched_mock.mock_id = mock_id THEN updated ELSE matched_mock
    /\ admin_log' = Append(admin_log,
                           Logged("update", mock_id,
                                  IF Given(dto, "mock_enabled")
                                  THEN (IF dto.mock_enabled THEN "on" ELSE "off")
                                  ELSE "keep"))
    /\ UNCHANGED <<counterVars, request, path_result, match_result, limiterVars, handlerVars>>

\* ToggleMockUseCase.execute for a stored id
AdminToggle(mock_id) ==
    /\ Len(admin_log) < MaxAdminOps
    /\ \E k \in PositionsOf(mocks, mock_id) :
          \E updated \in {Toggled(mocks[k])} :
             /\ mocks' = WithObject(mocks, updated)
             /\ matched_mock' = IF matched_mock.mock_id = mock_id THEN updated ELSE matched_mock
    /\ admin_log' = Append(admin_log, Logged("toggle", mock_id, "flip"))
    /\ UNCHANGED <<counterVars, request, path_result, match_result, limiterVars, handlerVars>>

\* DeleteMockUseCase.execute for a stored id
AdminDelete(mock_id) ==
    /\ Len(admin_log) < MaxAdminOps
    /\ PositionsOf(mocks, mock_id) # {}
    /\ mocks' = Deleted(mocks, mock_id)
    /\ admin_log' = Append(admin_log, Logged("delete", mock_id, "gone"))
    /\ UNCHANGED <<matched_mock, counterVars, request, path_result, match_result, limiterVars, handlerVars>>

NextAdmin ==
    \/ \E r \in AdminRequests :
          \E found \in {FindMatch(r, GetAll(mocks))} :
             \E d \in DrawsFor(found.mock) : HandleRequest(r, found, d)
    \/ DelayElapsed
    \/ \E result \in UpstreamOutcomes :
          \E d \in DrawsFor(matched_mock) : UpstreamReturns(result, d)
    \/ \E dto \in CreateMockDTOs : AdminCreate(dto)
    \/ \E k \in 1..Len(mocks), dto \in UpdateMockDTOs : AdminUpdate(mocks[k].mock_id, dto)
    \/ \E k \in 1..Len(mocks) : AdminToggle(mocks[k].mock_id)
    \/ \E k \in 1..Len(mocks) : AdminDelete(mocks[k].mock_id)

SpecAdmin == InitAdmin /\ [][NextAdmin]_vars

(***************************************************************************)
(* SpecState: increment called on the one InMemoryStateRepository, through *)
(* IncrementStateUseCase.execute and StateService.increment_counter, each  *)
(* call awaited on its own or several gathered to run concurrently.  None  *)
(* of the three coroutines awaits anything but the next one and increment  *)
(* has no await in its body, so a gathered call can be suspended only      *)
(* before it starts: it runs from its first statement to its return in one *)
(* step, and the gathered calls run in any order.                          *)
(***************************************************************************)
MaxIncrements == 3

MaxConcurrent == 3

StateKeys == { <<"k">>, <<"n">> }

SessionIds == { NoneStr, DefaultSession, <<"s", "1">> }

Deltas == {-1, 0, 5}

Started == Len(increments) + Cardinality({ i \in DOMAIN tasks : tasks[i].pc = "pending" })

InitState ==
    /\ mocks = <<>>
    /\ request = RequestContext("GET", PathA, <<>>, NoneStr)
    /\ path_result = PendingPath
    /\ match_result = PendingMatch
    /\ LimiterAtRest
    /\ HandlerAtRest
    /\ CountersAtRest
    /\ AdminAtRest

Applied(state_key, session_id, delta) ==
    [state_key |-> state_key, session_id |-> session_id, delta |-> delta]

\* await use_case.execute(state_key, session_id, delta), not gathered
Execute(state_key, session_id, delta) ==
    /\ Started < MaxIncrements
    /\ batch.active =>
          <<SessionOf(session_id), state_key>> # <<SessionOf(batch.session_id), batch.state_key>>
    /\ store' = Increment(store, state_key, session_id, delta).store
    /\ increments' = Append(increments, Applied(state_key, session_id, delta))
    /\ UNCHANGED <<batch, tasks>>
    /\ UNCHANGED <<adminVars, mocks, request, path_result, match_result, limiterVars, handlerVars>>

\* asyncio.gather of n calls of execute with the same arguments
Gather(state_key, session_id, delta, n) ==
    /\ ~batch.active
    /\ Started + n <= MaxIncrements
    /\ batch' = [active |-> TRUE, state_key |-> state_key, session_id |-> session_id,
                 delta |-> delta,
                 prior |-> LET session == SessionOf(session_id)
                           IN IF session \in DOMAIN store /\ state_key \in DOMAIN store[session]
                              THEN PyInt(store[session][state_key]) ELSE 0]
    /\ tasks' = [i \in 1..n |-> [pc |-> "pending", value |-> 0]]
    /\ UNCHANGED <<store, increments>>
    /\ UNCHANGED <<adminVars, mocks, request, path_result, match_result, limiterVars, handlerVars>>

\* the event loop runs one of the gathered calls
RunTask(i) ==
    /\ batch.active
    /\ tasks[i].pc = "pending"
    /\ LET out == Increment(store, batch.state_key, batch.session_id, batch.delta)
       IN /\ store' = out.store
          /\ tasks' = [tasks EXCEPT ![i] = [pc |-> "done", value |-> out.value]]
    /\ increments' = Append(increments, Applied(batch.state_key, batch.session_id, batch.delta))
    /\ UNCHANGED batch
    /\ UNCHANGED <<adminVars, mocks, request, path_result, match_result, limiterVars, handlerVars>>

\* gather returns the values of its calls
GatherReturns ==
    /\ batch.active
    /\ \A i \in DOMAIN tasks : tasks[i].pc = "done"
    /\ batch' = NoBatch
    /\ tasks' = <<>>
    /\ UNCHANGED <<store, increments>>
    /\ UNCHANGED <<adminVars, mocks, request, path_result, match_result, limiterVars, handlerVars>>

NextState ==
    \/ \E state_key \in StateKeys, session_id \in SessionIds, delta \in Deltas :
          Execute(state_key, session_id, delta)
    \/ \E state_key \in StateKeys, session_id \in SessionIds, delta \in Deltas, n \in 2..MaxConcurrent :
          Gather(state_key, session_id, delta, n)
    \/ \E i \in DOMAIN tasks : RunTask(i)
    \/ GatherReturns

SpecState == InitState /\ [][NextState]_vars

(***************************************************************************)
(* Properties of path matching and find_match.                             *)
(***************************************************************************)
Range(f) == { f[k] : k \in DOMAIN f }

\* the segments of a path: the texts between its "/" characters
RECURSIVE SplitFrom(_, _, _, _)
SplitFrom(s, j, cur, acc) ==
    IF j > Len(s) THEN Append(acc, cur)
    ELSE IF s[j] = "/" THEN SplitFrom(s, j + 1, <<>>, Append(acc, cur))
         ELSE SplitFrom(s, j + 1, Append(cur, s[j]), acc)

Segments(s) == SplitFrom(s, 1, <<>>, <<>>)

IsPlaceholderSegment(seg) ==
    /\ Len(seg) >= 3
    /\ seg[1] = "{"
    /\ seg[Len(seg)] = "}"
    /\ \A k \in 2..(Len(seg) - 1) : seg[k] \in WordChars

IsLiteralSegment(seg) == \A k \in 1..Len(seg) : seg[k] \notin {"{", "}"}

PlaceholderName(seg) == SubSeq(seg, 2, Len(seg) - 1)

\* a pattern each of whose segments is literal text or one {name} placeholder
SegmentPattern(p) ==
    \A seg \in Range(Segments(p)) : IsPlaceholderSegment(seg) \/ IsLiteralSegment(seg)

HasPlaceholder(p) == \E seg \in Range(Segments(p)) : IsPlaceholderSegment(seg)

DistinctPlaceholders(p) ==
    \A x, y \in 1..Len(Segments(p)) :
        (x # y /\ IsPlaceholderSegment(Segments(p)[x]) /\ IsPlaceholderSegment(Segments(p)[y]))
            => Segments(p)[x] # Segments(p)[y]

\* segment by segment: as many segments in the path as in the pattern, literal
\* segments equal, a placeholder facing a non-empty segment
SegmentsAgree(p, r) ==
    /\ Len(Segments(p)) = Len(Segments(r))
    /\ \A k \in 1..Len(Segments(p)) :
          IF IsPlaceholderSegment(Segments(p)[k])
          THEN Segments(r)[k] # <<>>
          ELSE Segments(r)[k] = Segments(p)[k]

\* each placeholder name mapped to the text of the segment it faces
SegmentParams(p, r) ==
    [name \in { PlaceholderName(Segments(p)[k]) :
                  k \in { x \in 1..Len(Segments(p)) : IsPlaceholderSegment(Segments(p)[x]) } } |->
        Segments(r)[CHOOSE k \in 1..Len(Segments(p)) :
                        /\ IsPlaceholderSegment(Segments(p)[k])
                        /\ PlaceholderName(Segments(p)[k]) = name]]

\* C4: a pattern whose placeholders each fill one segment matches a request
\* path only if the two agree segment by segment (so with no extra and no
\* missing segment, and each placeholder facing a non-empty segment without
\* "/"), the parameters returned on a match map each placeholder name to the
\* text of its segment, and with distinct placeholder names every agreeing
\* path is matched.
C4_PlaceholderMatchesOneSegment ==
    LET p == GetMatchPath(mocks[1])
        r == request.request_path
    IN (path_result.kind # "pending" /\ SegmentPattern(p) /\ HasPlaceholder(p)) =>
          /\ path_result.matched =>
                (SegmentsAgree(p, r) /\ path_result.params = SegmentParams(p, r))
          /\ (DistinctPlaceholders(p) /\ SegmentsAgree(p, r)) =>
                (path_result.kind = "ok" /\ path_result.matched)

\* "/a/{i}" has matched "/a/b" with i = "b"
C4_Witness ==
    /\ GetMatchPath(mocks[1]) = <<"/", "a", "/", "{", "i", "}">>
    /\ request.request_path = <<"/", "a", "/", "b">>
    /\ path_result.kind = "ok"
    /\ path_result.matched
    /\ path_result.params = [n \in {<<"i">>} |-> <<"b">>]

\* "/a/{i}" has been tried on a path with an extra segment and has not matched
C4_ExtraSegmentRejected ==
    /\ GetMatchPath(mocks[1]) = <<"/", "a", "/", "{", "i", "}">>
    /\ request.request_path = <<"/", "a", "/", "b", "/", "a">>
    /\ path_result.kind = "ok"
    /\ ~path_result.matched

\* the definitions that pass the method check and the path check
PassesMethodAndPath(mock, req) ==
    /\ MatchesMethod(mock.match_method, req.request_method)
    /\ MatchesPath(GetMatchPath(mock), req.request_path).kind = "ok"
    /\ MatchesPath(GetMatchPath(mock), req.request_path).matched

Eligible(mock, req) == mock.mock_enabled /\ PassesMethodAndPath(mock, req)

Returned == match_result.kind \in {"none", "match"}

ParamsOf(mock, req) == MatchesPath(GetMatchPath(mock), req.request_path).params

HeaderSatisfied(req, item) == GetRequestHeader(req, item[1]) = item[2]

\* the score as amended: the 500 need at least one header constraint
AmendedScore(mock, req) ==
    mock.mock_priority
    + (IF ParamsOf(mock, req) = EmptyDict THEN 1000 ELSE 0)
    + (IF /\ ~mock.match_headers.none
          /\ mock.match_headers.items # <<>>
          /\ \A it \in Range(mock.match_headers.items) : HeaderSatisfied(req, it)
       THEN 500 ELSE 0)

\* the score as first stated: 500 when every header constraint is satisfied
StatedScore(mock, req) ==
    mock.mock_priority
    + (IF ParamsOf(mock, req) = EmptyDict THEN 1000 ELSE 0)
    + (IF \A it \in Range(mock.match_headers.items) : HeaderSatisfied(req, it)
       THEN 500 ELSE 0)

\* of two enabled definitions of the request's method and literal path and
\* without header constraints, the lower-priority one is not returned
HigherPriorityWins ==
    \A a, b \in Range(mocks) :
        (/\ Eligible(a, request) /\ Eligible(b, request)
         /\ a.match_path = request.request_path /\ b.match_path = request.request_path
         /\ ~TruthyDict(a.match_headers) /\ ~TruthyDict(b.match_headers)
         /\ a.mock_priority > b.mock_priority)
            => match_result.mock # b

\* C2 (as amended): a definition find_match returns is enabled, passes the
\* method and path checks and has the maximal score among such definitions,
\* the score being priority, plus 1000 for a match without path parameters,
\* plus 500 when the definition has at least one header constraint and the
\* request satisfies every one; of two such literal-path definitions without
\* header constraints the higher-priority one is preferred.
C2_ReturnsMaximalScore ==
    match_result.kind = "match" =>
        /\ match_result.mock \in Range(mocks)
        /\ Eligible(match_result.mock, request)
        /\ match_result.path_params = ParamsOf(match_result.mock, request)
        /\ \A m \in Range(mocks) :
              Eligible(m, request) =>
                  AmendedScore(m, request) <= AmendedScore(match_result.mock, request)
        /\ HigherPriorityWins

\* C2 (as first stated): the score of the returned definition is maximal when
\* the 500 go to every definition none of whose header constraints fails
C2_AsStated ==
    match_result.kind = "match" =>
        /\ Eligible(match_result.mock, request)
        /\ \A m \in Range(mocks) :
              Eligible(m, request) =>
                  StatedScore(m, request) <= StatedScore(match_result.mock, request)
        /\ HigherPriorityWins

\* priority 100 is returned although priority 10, of the same method and
\* literal path, comes first in the list
C2_Witness ==
    /\ match_result.kind = "match"
    /\ Len(mocks) = 2
    /\ Eligible(mocks[1], request) /\ Eligible(mocks[2], request)
    /\ mocks[1].match_path = request.request_path
    /\ mocks[2].match_path = request.request_path
    /\ ~TruthyDict(mocks[1].match_headers) /\ ~TruthyDict(mocks[2].match_headers)
    /\ mocks[1].mock_priority = 10 /\ mocks[2].mock_priority = 100
    /\ match_result.mock = mocks[2]

\* matched by literal equality / only through a {name} template
MatchesLiterally(mock, req) ==
    Eligible(mock, req) /\ mock.match_path = req.request_path

MatchesByTemplateOnly(mock, req) ==
    /\ Eligible(mock, req)
    /\ mock.match_path # req.request_path
    /\ ParamsOf(mock, req) # EmptyDict

\* C3: when the request matches one enabled definition by literal equality
\* and another only through a template, and both have the same priority,
\* find_match does not return the templated one; when the list holds these
\* two only, it returns the literal one.
C3_LiteralBeatsTemplate ==
    match_result.kind = "match" =>
        \A l, t \in Range(mocks) :
            (/\ MatchesLiterally(l, request)
             /\ MatchesByTemplateOnly(t, request)
             /\ l.mock_priority = t.mock_priority)
                => /\ match_result.mock # t
                   /\ Len(mocks) = 2 => match_result.mock = l

\* the template comes first in the list and its header constraint is met;
\* the literal definition of the same priority is returned
C3_Witness ==
    /\ match_result.kind = "match"
    /\ Len(mocks) = 2
    /\ MatchesByTemplateOnly(mocks[1], request)
    /\ HeaderBonus(mocks[1], request) = 500
    /\ MatchesLiterally(mocks[2], request)
    /\ mocks[1].mock_priority = mocks[2].mock_priority
    /\ match_result.mock = mocks[2]
    /\ match_result.path_params = EmptyDict

(***************************************************************************)
(* Properties of the rate limiter.                                         *)
(***************************************************************************)
LastPair == PairOf(last_call.mock_id, last_call.client_ip)

\* C6: when burst = limit_per_minute = N, an is_allowed call that is among
\* the first N made for its (mock id, client address) pair since the pair
\* was last reset is admitted, and the (N+1)-th such call, made less than
\* 60 seconds after the first, is denied; the first call after a reset of
\* the pair is therefore admitted again.
C6_BurstThenDenied ==
    (last_call.op = "is_allowed" /\ limits.burst = limits.limit_per_minute) =>
        LET N == limits.burst
            times == streak[LastPair].times
            n == Len(times)
        IN /\ n <= N => last_call.result
           /\ (n = N + 1 /\ times[n] - times[1] < 60) => ~last_call.result

\* two calls were admitted, the third was denied, the pair was reset and the
\* next call for it is admitted
C6_Witness ==
    /\ limits = [limit_per_minute |-> 2, burst |-> 2]
    /\ last_call.op = "is_allowed"
    /\ last_call.result
    /\ Len(streak[LastPair].times) = 1
    /\ streak[LastPair].reset_after = "denied"

\* the timestamp list the limiter holds for a pair, and whether it holds one
EntryOf(table, p) ==
    LET key == GetKey(p[1], p[2])
    IN [present |-> key \in DOMAIN table, timestamps |-> TimestampsOf(table, key)]

\* C7: an is_allowed call for one (mock id, client address) pair, an absent
\* address counting as "unknown", leaves the timestamp list of every other
\* pair as it was.
C7_PairsIndependent ==
    [][(last_call'.op = "is_allowed" /\ calls' = calls + 1) =>
        \A p \in Pairs :
            p # PairOf(last_call'.mock_id, last_call'.client_ip) =>
                EntryOf(request_timestamps', p) = EntryOf(request_timestamps, p)]_vars

\* a call without address was made while the same mock id with an address,
\* and the other mock id without one, hold timestamps
C7_Witness ==
    /\ last_call = [op |-> "is_allowed", mock_id |-> IdOf(1), client_ip |-> NoneStr, result |-> FALSE]
    /\ EntryOf(request_timestamps, PairOf(IdOf(1), NoneStr)).timestamps # <<>>
    /\ EntryOf(request_timestamps, PairOf(IdOf(1), <<"a">>)).timestamps # <<>>
    /\ EntryOf(request_timestamps, PairOf(IdOf(2), NoneStr)).timestamps # <<>>

\* C8: reset(mock_id, client_ip) removes the key of that pair and nothing
\* else; reset(mock_id) removes every key of that mock id and leaves the
\* keys of other mock ids as they were; reset() empties the table.
C8_ResetScopes ==
    [][(last_call'.op = "reset" /\ calls' = calls + 1) =>
        LET m == last_call'.mock_id
            ip == last_call'.client_ip
            Covered(p) == IF ip # NoneStr THEN p = <<m, ip>> ELSE p[1] = m
        IN IF m = NoneStr
           THEN request_timestamps' = EmptyDict
           ELSE /\ DOMAIN request_timestamps' \subseteq DOMAIN request_timestamps
                /\ \A p \in Pairs :
                    IF Covered(p)
                    THEN ~EntryOf(request_timestamps', p).present
                    ELSE EntryOf(request_timestamps', p) = EntryOf(request_timestamps, p)]_vars

\* reset(mock_id) was called when both pairs of that mock id and a pair of
\* the other mock id had been called
C8_Witness ==
    /\ last_call = [op |-> "reset", mock_id |-> IdOf(1), client_ip |-> NoneStr, result |-> FALSE]
    /\ streak[PairOf(IdOf(1), NoneStr)].reset_after # "none"
    /\ streak[PairOf(IdOf(1), <<"a">>)].reset_after # "none"
    /\ EntryOf(request_timestamps, PairOf(IdOf(2), <<"a">>)).timestamps # <<>>
    /\ ~EntryOf(request_timestamps, PairOf(IdOf(1), <<"a">>)).present

(***************************************************************************)
(* Properties of the request handler and of generate_response.             *)
(***************************************************************************)
\* the method and the path of a definition face the request's: methods
\* equal up to case, path equal or agreeing segment by segment
MethodAndPathFace(mock, req) ==
    /\ Upper(mock.match_method) = Upper(req.request_method)
    /\ \/ mock.match_path = req.request_path
       \/ SegmentPattern(mock.match_path) /\ SegmentsAgree(mock.match_path, req.request_path)

NoEnabledDefinitionMatches ==
    \A m \in Range(mocks) : ~(m.mock_enabled /\ MethodAndPathFace(m, request))

Invoked(stage) == \E k \in 1..Len(invoked) : invoked[k] = stage

\* C5: once a request that no enabled definition matches by method and path
\* has been handled, find_match has returned no-match without raising, the
\* response is the 404 whose JSON body names the request's path and method,
\* and neither generate_response nor handle_proxy_request has been invoked.
C5_AsStated ==
    (handled > 0 /\ NoEnabledDefinitionMatches) =>
        /\ match_result.kind = "none"
        /\ response = NotFound(request)
        /\ ~Invoked("response_service")
        /\ ~Invoked("proxy_service")

\* the repository holds one enabled GET definition of path "/{i}/{i}"; GET
\* "/b" has two segments less one, so nothing matches it, and find_match
\* has raised re.error
C5_Witness ==
    /\ handled > 0
    /\ NoEnabledDefinitionMatches
    /\ Len(mocks) = 1
    /\ mocks[1].match_path = TemplateII
    /\ request.request_method = "GET"
    /\ request.request_path = PathB
    /\ match_result.kind = "raise"
    /\ response = Raised("re.error")

\* C5, for the calls of find_match that return: the 404 naming the path and
\* the method, and no component invoked
C5_WhenFindMatchReturns ==
    (handled > 0 /\ NoEnabledDefinitionMatches /\ match_result.kind # "raise") =>
        /\ match_result.kind = "none"
        /\ pc = "done"
        /\ response = NotFound(request)
        /\ response.content.fields[2] = <<"path", request.request_path>>
        /\ response.content.fields[3] = <<"method", request.request_method>>
        /\ ~Invoked("response_service")
        /\ ~Invoked("proxy_service")

\* the timestamps of a key that lie inside the window number 60 or more
OverQuota(table, mock_id, client_ip, t) ==
    LET key == mock_id \o <<":">> \o (IF client_ip \in {NoneStr, <<>>} THEN Unknown ELSE client_ip)
        held == IF key \in DOMAIN table THEN table[key] ELSE <<>>
    IN Cardinality({ k \in 1..Len(held) : held[k] > t - 60 }) >= 60

\* the Content-Type a response goes out with: the header if there is one,
\* else the media type
ContentTypeOf(resp) ==
    IF \E k \in 1..Len(resp.headers) : Lower(resp.headers[k][1]) = "content-type"
    THEN resp.headers[CHOOSE k \in 1..Len(resp.headers) : Lower(resp.headers[k][1]) = "content-type"][2]
    ELSE resp.media_type

LaterStages == {"error_draw", "error_response", "delay", "body", "render", "headers"}

GenerateResponseAdmitted ==
    /\ handled > 0
    /\ match_result.kind = "match"
    /\ Invoked("response_service")
    /\ last_call.op = "is_allowed"
    /\ last_call.result

\* C10: an admitted run of generate_response for a definition with
\* error_rate = 100 returns the configured error status and body, and one for
\* a definition with error_rate = 0 does not return the injected error,
\* whatever random.randint returns.
C10_AsStated ==
    GenerateResponseAdmitted =>
        LET rc == match_result.mock.mock_response
        IN /\ rc.error_rate = 100 =>
                /\ pc = "done"
                /\ response.status_code = rc.error_status_code
                /\ response.content = TextContent(rc.error_body)
           /\ rc.error_rate = 0 => ~Invoked("error_response")

\* random.randint returned 100 for a definition with error_rate = 100 and
\* the response is the definition's own 200 "ok", not the error
C10_Witness ==
    /\ GenerateResponseAdmitted
    /\ match_result.mock.mock_response.error_rate = 100
    /\ draw = 100
    /\ pc = "done"
    /\ response.status_code = 200
    /\ response.content = TextContent("ok")
    /\ ~Invoked("error_response")

\* C10, for the draws below 100: error_rate = 100 injects the error on every
\* draw from 0 to 99, and error_rate = 0 never injects it
C10_BelowHundred ==
    GenerateResponseAdmitted =>
        LET rc == match_result.mock.mock_response
        IN /\ (rc.error_rate = 100 /\ draw # 100) =>
                /\ pc = "done"
                /\ response.status_code = rc.error_status_code
                /\ response.content = TextContent(rc.error_body)
           /\ rc.error_rate = 0 => (draw = NoDraw /\ ~Invoked("error_response"))

(***************************************************************************)
(* Properties of the proxy modes.                                          *)
(***************************************************************************)
Matched == match_result.mock

ModeIs(mode) == handled > 0 /\ match_result.kind = "match" /\ Matched.mock_mode = mode

HasUpstream == Matched.upstream_url \notin {NoneStr, <<>>}

UpstreamFailed(classes) == upstream_result.kind \in classes

\* the configured body, rendered when the definition says it is a template
ConfiguredContent ==
    LET rc == Matched.mock_response
    IN IF rc.is_template THEN RenderTemplate(rc.response_body, request)
       ELSE TextContent(rc.response_body)

AnsweredAsConfigured ==
    /\ response.kind = "response"
    /\ response.status_code = Matched.mock_response.response_status
    /\ response.content = ConfiguredContent

AnsweredWithInjectedError ==
    /\ response.kind = "response"
    /\ response.status_code = Matched.mock_response.error_status_code
    /\ response.content = TextContent(Matched.mock_response.error_body)

TimedOutInFallbackMode ==
    /\ ModeIs("proxy-with-fallback")
    /\ HasUpstream
    /\ UpstreamFailed({"TimeoutError"})
    /\ pc = "done"

C12_FallbackExactlyOnTimeoutOrConnection ==
    (ModeIs("proxy-with-fallback") /\ HasUpstream /\ upstream_result.kind # "none") =>
        /\ Invoked("response_service") <=> UpstreamFailed({"TimeoutError", "ConnectionError"})
        /\ upstream_result.kind = "ok" =>
              /\ pc = "done"
              /\ response.kind = "response"
              /\ response.status_code = upstream_result.status_code
              /\ response.headers = UpstreamHeaders
              /\ response.content = TextContent("upstream")
        /\ ~UpstreamFailed({"ok", "TimeoutError", "ConnectionError"}) =>
              /\ pc = "done"
              /\ response.kind = "raise"
              /\ response.exception = upstream_result.kind

\* the upstream answered 503 and that answer was handed on, generate_response
\* not invoked, for a definition whose own status is 201
C12_Witness ==
    /\ ModeIs("proxy-with-fallback")
    /\ HasUpstream
    /\ upstream_result = UpstreamOk(503)
    /\ Matched.mock_response.response_status = 201
    /\ response.status_code = 503
    /\ ~Invoked("response_service")

\* the upstream call raised RuntimeError and it left the handler
C12_OtherClassPropagates ==
    /\ ModeIs("proxy-with-fallback")
    /\ HasUpstream
    /\ upstream_result = UpstreamRaises("RuntimeError")
    /\ response = Raised("RuntimeError")
    /\ ~Invoked("response_service")

JsonError(resp) ==
    /\ resp.kind = "response"
    /\ resp.content.format = "json"
    /\ \E k \in 1..Len(resp.content.fields) : resp.content.fields[k][1] = "error"
    /\ ContentTypeOf(resp) = "application/json"

C14_AsStated ==
    ((ModeIs("proxy") \/ ModeIs("passthrough")) /\ ~HasUpstream) =>
        /\ pc = "done"
        /\ response.status_code = 500
        /\ JsonError(response)
        /\ ~Invoked("upstream_call")

\* C14, the part the code keeps: proxy mode without upstream_url is answered
\* with the 500 JSON error, and neither mode attempts an upstream call.
C14_ProxyModeWithoutUpstream ==
    /\ (ModeIs("proxy") /\ ~HasUpstream) =>
          /\ pc = "done"
          /\ response = UpstreamNotConfigured
          /\ JsonError(response)
    /\ ((ModeIs("proxy") \/ ModeIs("passthrough")) /\ ~HasUpstream) =>
          /\ ~Invoked("upstream_call")
          /\ upstream_result = NoUpstreamResult

\* a passthrough definition with no upstream_url was matched and the
\* ValueError of _passthrough left the handler
C14_Witness ==
    /\ ModeIs("passthrough")
    /\ ~HasUpstream
    /\ response = Raised("ValueError")
    /\ ~Invoked("upstream_call")

\* the request matched a definition and its handling has come to its end
MatchedAndDone == handled > 0 /\ match_result.kind = "match" /\ pc = "done"

UnclassifiedFailureInFallbackMode ==
    /\ ModeIs("proxy-with-fallback")
    /\ HasUpstream
    /\ ~UpstreamFailed({"ok", "none", "TimeoutError", "ConnectionError"})

\* C15 as stated: whatever the mode of the matched definition, the handler
\* returns a response; an exception leaves it only after an upstream
\* failure that is neither a timeout nor a connection error, in
\* proxy-with-fallback mode.
C15_AsStated ==
    MatchedAndDone =>
        \/ response.kind = "response"
        \/ UnclassifiedFailureInFallbackMode

\* C15, what the code keeps: in mock and proxy mode the handler always
\* returns a response; an exception leaves it only in proxy-with-fallback
\* mode after an unclassified upstream failure, or in passthrough mode when
\* upstream_url is missing or the upstream call raised.
C15_ExceptionsEscapeOnlyFromFallbackOrPassthrough ==
    MatchedAndDone =>
        \/ response.kind = "response"
        \/ UnclassifiedFailureInFallbackMode
        \/ ModeIs("passthrough") /\ ~HasUpstream /\ response = Raised("ValueError")
        \/ ModeIs("passthrough") /\ HasUpstream /\ response = Raised(upstream_result.kind)

\* the upstream call of a passthrough definition timed out and the
\* TimeoutError left the handler
C15_Witness ==
    /\ ModeIs("passthrough")
    /\ HasUpstream
    /\ upstream_result = UpstreamRaises("TimeoutError")
    /\ pc = "done"
    /\ response = Raised("TimeoutError")

BodyBuilt == handled > 0 /\ match_result.kind = "match" /\ Invoked("body") /\ pc = "done"

RenderingFails == Jinja(Matched.mock_response.response_body, request).kind # "ok"

HasErrorField(content) ==
    /\ content.format = "json"
    /\ \E k \in 1..Len(content.fields) : content.fields[k][1] = "error"

SessionNamed(session_id) ==
    IF session_id = NoneStr \/ session_id = <<>> THEN DefaultSession ELSE session_id

Sessions == { SessionNamed(session_id) : session_id \in SessionIds }

\* the counter of (state_key, session) as the store holds it, 0 when absent
StoredValue(state_key, session) ==
    IF session \in DOMAIN store /\ state_key \in DOMAIN store[session]
    THEN PyInt(store[session][state_key])
    ELSE 0

\* the sum of the deltas of the first k calls that named (state_key, session)
RECURSIVE SumApplied(_, _, _)
SumApplied(k, state_key, session) ==
    IF k = 0 THEN 0
    ELSE SumApplied(k - 1, state_key, session)
           + (IF /\ increments[k].state_key = state_key
                 /\ SessionNamed(increments[k].session_id) = session
              THEN increments[k].delta ELSE 0)

CountersAreSums ==
    \A state_key \in StateKeys, session \in Sessions :
        StoredValue(state_key, session) = SumApplied(Len(increments), state_key, session)

\* a call has run in this step, and the counters it did not name are as before
OthersUntouched ==
    Len(increments') = Len(increments) + 1 =>
        LET call == increments'[Len(increments')]
        IN \A state_key \in StateKeys, session \in Sessions :
              <<state_key, session>> # <<call.state_key, SessionNamed(call.session_id)>> =>
                  /\ (session \in DOMAIN store /\ state_key \in DOMAIN store[session]) =>
                        /\ session \in DOMAIN store'
                        /\ state_key \in DOMAIN store'[session]
                        /\ store'[session][state_key] = store[session][state_key]
                  /\ ~(session \in DOMAIN store /\ state_key \in DOMAIN store[session]) =>
                        ~(session \in DOMAIN store' /\ state_key \in DOMAIN store'[session])

\* C19: after any sequence of increment calls the counter of (key, session)
\* is the sum, from 0, of the deltas of the calls that named that key and
\* that session, and a call that names another session or another key
\* leaves the stored value as it was.
C19_CountersSessionIsolated == []CountersAreSums /\ [][OthersUntouched]_vars

\* the same key counted in two sessions: one call without a session id and
\* one for "s1" have run, and each counter holds its own delta
C19_Witness ==
    /\ \E k \in 1..Len(increments) : increments[k] = Applied(<<"k">>, NoneStr, -1)
    /\ \E k \in 1..Len(increments) : increments[k] = Applied(<<"k">>, <<"s", "1">>, 5)
    /\ Len(increments) = 2
    /\ StoredValue(<<"k">>, DefaultSession) = -1
    /\ StoredValue(<<"k">>, <<"s", "1">>) = 5

Finished == { i \in DOMAIN tasks : tasks[i].pc = "done" }

BatchCounter == StoredValue(batch.state_key, SessionNamed(batch.session_id))

\* C20 as stated: once the N gathered calls have all run, the counter is
\* its prior value plus N * d and the N calls have returned N distinct
\* values.
C20_AsStated ==
    (batch.active /\ Finished = DOMAIN tasks) =>
        /\ BatchCounter = batch.prior + Len(tasks) * batch.delta
        /\ \A i, j \in DOMAIN tasks : i # j => tasks[i].value # tasks[j].value

\* C20: while N calls with delta d gathered on one (key, session) run, in any
\* order, no update is lost: after m of them the counter is its prior value
\* plus m * d and they have returned prior + d, ..., prior + m * d, so that
\* at the end the counter is prior + N * d; the returned values are distinct
\* when d is not 0.
C20_NoUpdateLost ==
    batch.active =>
        LET m == Cardinality(Finished)
        IN /\ BatchCounter = batch.prior + m * batch.delta
           /\ { tasks[i].value : i \in Finished } = { batch.prior + j * batch.delta : j \in 1..m }
           /\ batch.delta # 0 =>
                 \A i, j \in Finished : i # j => tasks[i].value # tasks[j].value

\* three gathered calls with delta 5 have all run, the last one first
C20_Witness ==
    /\ batch.active
    /\ Len(tasks) = 3
    /\ Finished = DOMAIN tasks
    /\ batch.delta = 5
    /\ tasks[3].value = batch.prior + 5
    /\ tasks[1].value = batch.prior + 15
    /\ BatchCounter = batch.prior + 15

(***************************************************************************)
(* Properties of the admin operations and the requests around them.        *)
(***************************************************************************)
\* what the first k admin operations leave of a definition: "on", "off" or
\* "absent"; the definitions the repository starts with are enabled
RECURSIVE EnabledAfter(_, _)
EnabledAfter(k, mock_id) ==
    IF k = 0
    THEN IF \E j \in 1..Len(admin_log) :
               admin_log[j].op = "create" /\ admin_log[j].mock_id = mock_id
         THEN "absent" ELSE "on"
    ELSE LET before == EnabledAfter(k - 1, mock_id)
             e == admin_log[k]
         IN IF e.mock_id # mock_id THEN before
            ELSE CASE e.enabled = "on" -> "on"
                   [] e.enabled = "off" -> "off"
                   [] e.enabled = "flip" -> (IF before = "on" THEN "off" ELSE "on")
                   [] e.enabled = "gone" -> "absent"
                   [] OTHER -> before

\* a request is matched in this step: a definition it is matched to is, by
\* the admin operations completed so far, stored and enabled, and is handed
\* out as the repository holds it; a request matched to none finds no stored
\* and enabled definition of its method and path
MatchedAsStoredNow ==
    handled' = handled + 1 =>
        /\ match_result'.kind # "raise"
        /\ match_result'.kind = "match" =>
              /\ EnabledAfter(Len(admin_log), match_result'.mock.mock_id) = "on"
              /\ \E k \in 1..Len(mocks) : mocks[k] = match_result'.mock
        /\ match_result'.kind = "none" =>
              ~ \E k \in 1..Len(mocks) :
                    /\ EnabledAfter(Len(admin_log), mocks[k].mock_id) = "on"
                    /\ Upper(mocks[k].match_method) = Upper(request'.request_method)
                    /\ mocks[k].match_path = request'.request_path

C22_HandlingLeavesDefinitionsAlone == [][mocks' = mocks]_vars

\* a request was answered with the default Content-Type and the header dict
\* of its definition is still empty
C22_Witness ==
    /\ pc = "done"
    /\ match_result.kind = "match"
    /\ Invoked("headers")
    /\ response.headers = << <<"Content-Type", "application/json">> >>
    /\ matched_mock.mock_response.response_headers = <<>>
    /\ \E k \in 1..Len(mocks) : mocks[k] = matched_mock

(***************************************************************************)
(* Properties of find_match: conditions, ties.                             *)
(***************************************************************************)
\* the request meets every header constraint of the definition
MeetsHeaderConstraints(mock, req) ==
    TruthyDict(mock.match_headers) =>
        \A k \in 1..Len(mock.match_headers.items) :
            HeaderSatisfied(req, mock.match_headers.items[k])

\* C23 as stated: find_match never returns a definition one of whose header
\* constraints the request does not satisfy.
C23_AsStated ==
    match_result.kind = "match" => MeetsHeaderConstraints(match_result.mock, request)

\* C23, what the code keeps: the returned definition is enabled and passes
\* the method and path checks; its header constraints are not a condition
\* but a rank: when the request fails one, no eligible definition whose
\* constraints the request meets scores more, its 500 included.
C23_HeadersOnlyRank ==
    match_result.kind = "match" =>
        /\ Eligible(match_result.mock, request)
        /\ ~MeetsHeaderConstraints(match_result.mock, request) =>
              \A m \in Range(mocks) :
                  (Eligible(m, request) /\ TruthyDict(m.match_headers)
                      /\ MeetsHeaderConstraints(m, request)) =>
                      m.mock_priority + LiteralBonus(ParamsOf(m, request)) + 500
                          <= match_result.mock.mock_priority
                               + LiteralBonus(ParamsOf(match_result.mock, request))

\* the only definition asks for X-Env: 1, the request says X-ENV: 2, and the
\* definition is returned
C23_Witness ==
    /\ match_result.kind = "match"
    /\ Len(mocks) = 1
    /\ mocks[1].match_headers = EnvIsOne
    /\ request.request_headers = << <<"X-ENV", "2">> >>
    /\ match_result.mock = mocks[1]

(***************************************************************************)
(* Properties of the upstream call's timeout and of the stage order.       *)
(***************************************************************************)
UpstreamCalled == handled > 0 /\ match_result.kind = "match" /\ Invoked("upstream_call")

\* C24 as stated: the timeout in force for the upstream call is the matched
\* definition's timeout_seconds.
C24_AsStated ==
    UpstreamCalled =>
        TimeoutInForce(matched_mock, HandlerGivesClient) = matched_mock.timeout_seconds

\* C24, what the code keeps: every upstream call is made with the timeout
\* of the handler's own client, 10 seconds, and its expiry, a TimeoutError,
\* is handled by the mode: a 500 in proxy mode, generate_response in
\* proxy-with-fallback mode, an exception in passthrough mode.
C24_DefaultTimeoutInForce ==
    UpstreamCalled =>
        /\ TimeoutInForce(matched_mock, HandlerGivesClient) = 10
        /\ (upstream_result = UpstreamRaises("TimeoutError") /\ pc = "done") =>
              CASE matched_mock.mock_mode = "proxy" -> response = ProxyRequestFailed
                [] matched_mock.mock_mode = "proxy-with-fallback" ->
                       Invoked("response_service") /\ response.kind = "response"
                [] OTHER -> response = Raised("TimeoutError")

\* the upstream call of the definition with timeout_seconds = 3 has been made
\* and has timed out
C24_Witness ==
    /\ UpstreamCalled
    /\ matched_mock.timeout_seconds = 3
    /\ upstream_result = UpstreamRaises("TimeoutError")
    /\ response = ProxyRequestFailed

\* the place of a stage of generate_response in the fixed order; 0 for what
\* is no stage of it
StageRank(stage) ==
    CASE stage = "rate_limit" -> 1
      [] stage = "error_draw" -> 2
      [] stage = "error_response" -> 3
      [] stage = "delay" -> 4
      [] stage = "body" -> 5
      [] stage = "render" -> 6
      [] stage = "headers" -> 7
      [] OTHER -> 0

TimesInvoked(stage) == Cardinality({k \in 1..Len(invoked) : invoked[k] = stage})

TerminalStages == {"error_response"}

\* C25: for the request being handled the stages of generate_response run in
\* the order rate-limit check, error injection, delay, body and rendering,
\* headers, each at most once; after a 429 or an injected error no stage
\* runs; generate_response and the upstream call run at most once, and a
\* step of the same request only adds stages to those already run.
StagesInOrder ==
    /\ \A j, k \in 1..Len(invoked) :
          (j < k /\ StageRank(invoked[j]) > 0 /\ StageRank(invoked[k]) > 0)
              => StageRank(invoked[j]) < StageRank(invoked[k])
    /\ \A k \in 1..Len(invoked) :
          StageRank(invoked[k]) > 0 => \E j \in 1..(k - 1) : invoked[j] = "response_service"
    /\ TimesInvoked("response_service") <= 1
    /\ TimesInvoked("upstream_call") <= 1
    /\ TimesInvoked("proxy_service") <= 1
    /\ \A k \in 1..Len(invoked) : invoked[k] \in TerminalStages => k = Len(invoked) /\ pc = "done"
    /\ (Invoked("rate_limit") /\ ~last_call.result) =>
          /\ invoked[Len(invoked)] = "rate_limit"
          /\ pc = "done"
          /\ response = TooManyRequests

NothingRunAgain ==
    handled' = handled =>
        /\ Len(invoked') >= Len(invoked)
        /\ SubSeq(invoked', 1, Len(invoked)) = invoked
        /\ pc = "done" => invoked' = invoked

C25_StagesOnceInOrder == []StagesInOrder /\ [][NothingRunAgain]_vars

\* a request has fallen back from a failed upstream call, has drawn for an
\* error, slept through its delay and been answered with its rendered body
C25_Witness ==
    /\ pc = "done"
    /\ Invoked("upstream_call")
    /\ Invoked("delay")
    /\ Invoked("headers")
    /\ response.kind = "response"

\* a request has been ended by an injected error
C25_WitnessTerminal ==
    /\ pc = "done"
    /\ Invoked("error_response")

(***************************************************************************)
(* Properties of the limiter's window and quota.                           *)
(***************************************************************************)
IsAllowedStep == last_call'.op = "is_allowed" /\ calls' = calls + 1

CalledPair == PairOf(last_call'.mock_id, last_call'.client_ip)

\* the larger of the two limits the call is made with
Quota == IF limits.burst > limits.limit_per_minute THEN limits.burst ELSE limits.limit_per_minute

\* the pair's timestamps before the call that are at most / less than 60
\* seconds old at the call
AtMostWindowOld(timestamps, t) == SelectSeq(timestamps, LAMBDA ts : t - ts <= 60)

LessThanWindowOld(timestamps, t) == SelectSeq(timestamps, LAMBDA ts : t - ts < 60)

\* the pair's list after a call that leaves the given timestamps in it
ListAfter(remaining, admitted, t) == IF admitted THEN Append(remaining, t) ELSE remaining

\* C26 as stated: an is_allowed call discards exactly the pair's timestamps
\* older than 60 seconds; one that is 60 seconds old still counts, and the
\* call is admitted exactly when fewer than the limit remain.
C26_AsStated ==
    [][IsAllowedStep =>
        LET remaining == AtMostWindowOld(EntryOf(request_timestamps, CalledPair).timestamps, now)
        IN /\ last_call'.result <=> Len(remaining) < Quota
           /\ EntryOf(request_timestamps', CalledPair).timestamps
                 = ListAfter(remaining, last_call'.result, now)]_vars

\* C26, what the code keeps: an is_allowed call discards exactly the pair's
\* timestamps that are 60 seconds old or older; a pair that was denied is
\* admitted again at the first call at which fewer than the limit of
\* timestamps are less than 60 seconds old.
C26_WindowIsOpenAtSixty ==
    [][IsAllowedStep =>
        LET remaining == LessThanWindowOld(EntryOf(request_timestamps, CalledPair).timestamps, now)
        IN /\ EntryOf(request_timestamps', CalledPair).timestamps
                 = ListAfter(remaining, last_call'.result, now)
           /\ streak[CalledPair].last_result = "denied" =>
                 (last_call'.result <=> Len(remaining) < Quota)]_vars

\* with a limit of 1 the pair was called at 0 and, a denial later, at 60:
\* the timestamp 0, then 60 seconds old, was discarded and the call admitted
C26_Witness ==
    /\ limits = [limit_per_minute |-> 1, burst |-> 1]
    /\ last_call.op = "is_allowed"
    /\ last_call.result
    /\ now = 60
    /\ streak[LastPair].times = <<0, 0, 60>>
    /\ streak[LastPair].reset_after = "none"
    /\ EntryOf(request_timestamps, LastPair).timestamps = <<60>>

\* C27: an is_allowed call is admitted exactly when fewer than
\* max(burst, limit_per_minute) timestamps of its pair lie inside the window;
\* a denied call adds no timestamp; and whatever is_allowed and reset calls
\* were made, no pair holds more than max(burst, limit_per_minute)
\* timestamps, all of them within 60 seconds of the newest.
QuotaKept ==
    \A p \in Pairs :
        LET timestamps == EntryOf(request_timestamps, p).timestamps
        IN /\ Len(timestamps) <= Quota
           /\ \A j, k \in 1..Len(timestamps) :
                 j <= k => (timestamps[j] <= timestamps[k] /\ timestamps[k] - timestamps[j] < 60)

AdmitsBelowQuota ==
    IsAllowedStep =>
        LET before == EntryOf(request_timestamps, CalledPair).timestamps
            after == EntryOf(request_timestamps', CalledPair).timestamps
            inside == Cardinality({k \in 1..Len(before) : before[k] > now - 60})
        IN /\ last_call'.result <=> inside < Quota
           /\ Len(after) = IF last_call'.result THEN inside + 1 ELSE inside
           /\ ~last_call'.result => \A k \in 1..Len(after) : \E j \in 1..Len(before) : before[j] = after[k]

C27_QuotaIsLargerLimit == []QuotaKept /\ [][AdmitsBelowQuota]_vars

\* with burst 1 and limit_per_minute 2 a pair holds two timestamps, was
\* denied a third, and another pair's list was reset meanwhile
C27_Witness ==
    /\ limits = [limit_per_minute |-> 2, burst |-> 1]
    /\ last_call.op = "is_allowed"
    /\ ~last_call.result
    /\ Len(EntryOf(request_timestamps, LastPair).timestamps) = 2
    /\ \E p \in Pairs : streak[p].reset_after # "none"

(***************************************************************************)
(* Properties of a response built while the definition is being changed.   *)
(***************************************************************************)
\* the request was suspended in its delay or in its upstream call and has
\* been answered with the configured response
AnsweredAfterSuspension ==
    /\ pc = "done"
    /\ match_result.kind = "match"
    /\ Invoked("delay") \/ Invoked("upstream_call")
    /\ Invoked("headers")

\* the response generate_response builds from the definition as it was when
\* the request was matched
ResponseAsMatched == GenerateFinish(match_result.mock, request).response

\* C28 as stated: the status, headers and body of a response built after a
\* suspension are those the definition had when the request was matched.
C28_AsStated == AnsweredAfterSuspension => response = ResponseAsMatched

\* the step in which a suspended request is answered with the configured
\* response
AnswersSuspended ==
    /\ pc \in {"sleeping", "upstream"}
    /\ pc' = "done"
    /\ \E k \in 1..Len(invoked') : invoked'[k] = "headers"

\* the matched definition has, but for its enabled flag, the fields it had
\* when the request was matched
OnlyToggledSinceMatch ==
    [matched_mock EXCEPT !.mock_enabled = match_result.mock.mock_enabled] = match_result.mock

\* C28, what the code keeps: a response built after a suspension has the
\* status, headers and body the stored definition has when the request
\* resumes; a toggle alone leaves them as they were at the match.
C28_BuiltFromDefinitionAtResumption ==
    [][AnswersSuspended =>
        LET rc == matched_mock.mock_response
        IN /\ response'.status_code = rc.response_status
           /\ response'.headers = PrepareHeaders(rc.response_headers)
           /\ ~rc.is_template => response'.content = TextContent(PrepareBody(rc.response_body))
           /\ OnlyToggledSinceMatch => response' = ResponseAsMatched]_vars

\* an update of status, headers and body completed during the delay of a
\* request matched to the definition with status 201; the answer is the new
\* one
C28_Witness ==
    /\ AnsweredAfterSuspension
    /\ Invoked("delay")
    /\ match_result.mock.mock_response.response_status = 201
    /\ response.status_code = 202
    /\ response.content = TextContent("new")
    /\ response # ResponseAsMatched

\* a toggle completed during the delay and the answer is the one of the match
C28_WitnessToggle ==
    /\ AnsweredAfterSuspension
    /\ matched_mock.mock_enabled # match_result.mock.mock_enabled
    /\ admin_log # <<>>
    /\ admin_log[Len(admin_log)].op = "toggle"
    /\ response = ResponseAsMatched

(***************************************************************************)
(* Properties of find_match: the winner among equal scores.                *)
(***************************************************************************)
\* the positions of a list whose definitions are enabled and pass the method
\* and path checks, and those of them of maximal score
EligiblePositions(list, req) == {k \in 1..Len(list) : Eligible(list[k], req)}

MaximalPositions(list, req) ==
    {k \in EligiblePositions(list, req) :
        \A j \in EligiblePositions(list, req) :
            AmendedScore(list[j], req) <= AmendedScore(list[k], req)}

FirstOf(positions) == CHOOSE k \in positions : \A j \in positions : k <= j

PositionIn(list, mock) == CHOOSE k \in 1..Len(list) : list[k] = mock

\* the definitions of a stored list other than the winner that share the
\* winner's score have a lower priority or, at the same priority, were
\* created later
WinsByPriorityThenAge(stored, req, winner) ==
    \A k \in MaximalPositions(stored, req) :
        stored[k] # winner =>
            \/ stored[k].mock_priority < winner.mock_priority
            \/ /\ stored[k].mock_priority = winner.mock_priority
               /\ PositionIn(stored, winner) < k

\* C29: find_match returns the definition, and its path parameters, that
\* request and list determine: of the candidates of maximal score the one
\* that comes first in the list; over the get_all order of a repository that
\* is the one of higher priority and, at equal priority, the one created
\* earlier.
C29_FirstOfMaximalIsReturned ==
    match_result.kind = "match" =>
        /\ match_result.mock = mocks[FirstOf(MaximalPositions(mocks, request))]
        /\ match_result.path_params = ParamsOf(match_result.mock, request)
        /\ LET ordered == FindMatch(request, GetAll(mocks))
           IN /\ ordered.kind = "match"
              /\ ordered.mock = GetAll(mocks)[FirstOf(MaximalPositions(GetAll(mocks), request))]
              /\ WinsByPriorityThenAge(mocks, request, ordered.mock)

\* two definitions of the same score: the literal one of priority 200, first
\* in the list, is returned; in get_all order the templated one of priority
\* 1200 comes first and is returned
C29_Witness ==
    /\ match_result.kind = "match"
    /\ Len(mocks) = 2
    /\ MaximalPositions(mocks, request) = {1, 2}
    /\ mocks[1].mock_priority = 200
    /\ mocks[2].mock_priority = 1200
    /\ match_result.mock = mocks[1]
    /\ FindMatch(request, GetAll(mocks)).mock = mocks[2]

\* two definitions that differ in nothing but their age: the older one is
\* returned
C29_WitnessSamePriority ==
    /\ match_result.kind = "match"
    /\ Len(mocks) = 2
    /\ [mocks[2] EXCEPT !.mock_id = mocks[1].mock_id] = mocks[1]
    /\ match_result.mock = mocks[1]

(***************************************************************************)
(* Properties of the limiter's table as the handler leaves it.             *)
(***************************************************************************)
\* the stages a step runs
NewStages ==
    IF handled' # handled THEN invoked'
    ELSE SubSeq(invoked', Len(invoked) + 1, Len(invoked'))

RunsGenerateResponse == \E k \in 1..Len(NewStages) : NewStages[k] = "rate_limit"

TableUnchanged == request_timestamps' = request_timestamps

\* one timestamp, now, is added to the list of the request's pair, or none
\* is and the answer is the 429; no other list changes
RecordsOneOrDenies ==
    LET key == GetKey(matched_mock'.mock_id, request'.client_ip)
        before == TimestampsOf(request_timestamps, key)
        after == TimestampsOf(request_timestamps', key)
        inside == Cardinality({k \in 1..Len(before) : before[k] > now - 60})
    IN /\ \A other \in (DOMAIN request_timestamps) \ {key} :
             /\ other \in DOMAIN request_timestamps'
             /\ request_timestamps'[other] = request_timestamps[other]
       /\ DOMAIN request_timestamps' \subseteq (DOMAIN request_timestamps) \cup {key}
       /\ \/ /\ Len(after) = inside + 1
             /\ after[Len(after)] = now
             /\ response' # TooManyRequests
          \/ /\ Len(after) = inside
             /\ response' = TooManyRequests
             /\ pc' = "done"

\* C30: a step changes the limiter's table only if generate_response runs in
\* it.  A request answered from upstream, one answered with a proxy-mode 500
\* and an unmatched one leave the table as it was; a proxy-with-fallback
\* request that falls back records exactly one timestamp or is answered 429.
TableChangesWithGenerateResponse ==
    /\ ~RunsGenerateResponse => TableUnchanged
    /\ RunsGenerateResponse => RecordsOneOrDenies
    /\ (handled' # handled /\ match_result'.kind = "none") => TableUnchanged
    /\ (pc = "upstream" /\ pc' = "done" /\ upstream_result'.kind = "ok") => TableUnchanged
    /\ (pc # "done" /\ pc' = "done" /\ response' \in {ProxyRequestFailed, UpstreamNotConfigured})
          => TableUnchanged
    /\ (handled' # handled /\ response' = UpstreamNotConfigured) => TableUnchanged
    /\ (/\ pc = "upstream"
        /\ matched_mock.mock_mode = "proxy-with-fallback"
        /\ upstream_result'.kind \in {"TimeoutError", "ConnectionError"})
          => RunsGenerateResponse /\ RecordsOneOrDenies

C30_WitnessUpstream ==
    /\ pc = "done"
    /\ upstream_result.kind = "ok"
    /\ request_timestamps # EmptyDict

\* a proxy-with-fallback request has fallen back and been answered 429
C30_WitnessDenied ==
    /\ Invoked("upstream_call")
    /\ Invoked("rate_limit")
    /\ response = TooManyRequests

=============================================================================
